---- MODULE Spec2Model ----
(***************************************************************************)
(* Change-point detection pipeline of sisi_mcp: the ChangePointDetector    *)
(* object (configuration, mutators, detect) and the windowed series loader *)
(* of pipe_detect_engine / plot_ship_congestion.                           *)
(***************************************************************************)
EXTENDS Integers, Sequences, FiniteSets, TLC

VARIABLES
    det,      \* the detector object: attribute name -> Python value
    lib,      \* which deterministic behaviour the segmentation library has
    ret,      \* outcome of the last call made on the detector
    first,    \* outcome of the first detect call (kept to compare later calls with)
    store,    \* the persisted table ship_cnt_in_pipe: a sequence of rows
    run,      \* outcome of the last run of a pipeline entry point
    pool      \* the requests running in worker threads and the frames of their calls

vars == <<det, lib, ret, first, store, run, pool>>

(***************************************************************************)
(* Bounds of the model.                                                    *)
(***************************************************************************)
MaxLen == 3        \* longest input series
LibSeeds == 2      \* number of library behaviours explored

(***************************************************************************)
(* Python values: strings, integers and None are kept apart by a tag, so   *)
(* that penalty = 'default' and penalty = 2 can be told apart as in Python.*)
(***************************************************************************)
PyStr(s) == [t |-> "str", v |-> s]
PyInt(i) == [t |-> "int", v |-> i]
PyDict(d) == [t |-> "dict", v |-> d]
None == [t |-> "none", v |-> "None"]

\* dict.get(key, default)
Get(d, k, default) == IF k \in DOMAIN d THEN d[k] ELSE default

Max(a, b) == IF a >= b THEN a ELSE b
Min(a, b) == IF a <= b THEN a ELSE b

\* int(a / b) of Python for integers a, b with b # 0: truncation toward zero
TruncDiv(a, b) ==
    IF (a >= 0) = (b > 0) THEN (IF a >= 0 THEN a ELSE -a) \div (IF b > 0 THEN b ELSE -b)
    ELSE -((IF a >= 0 THEN a ELSE -a) \div (IF b > 0 THEN b ELSE -b))

RECURSIVE Sum(_)
Sum(s) == IF s = <<>> THEN 0 ELSE s[1] + Sum(Tail(s))

RECURSIVE Pow2(_)
Pow2(n) == IF n <= 0 THEN 1 ELSE 2 * Pow2(n - 1)

(***************************************************************************)
(* Construction: ChangePointDetector.__init__ over BaseDetector.__init__.  *)
(***************************************************************************)
BaseDetectorInit(config) == [config |-> PyDict(config)]

ChangePointDetectorInit(config) ==
    LET base == BaseDetectorInit(config)
        cfg == base.config.v
    IN  [config   |-> base.config,
         method   |-> Get(cfg, "method", PyStr("pelt")),
         model    |-> Get(cfg, "model", PyStr("l2")),
         min_size |-> Get(cfg, "min_size", PyInt(3)),
         penalty  |-> Get(cfg, "penalty", PyStr("default")),
         n_bkps   |-> Get(cfg, "n_bkps", PyInt(3)),
         jump     |-> Get(cfg, "jump", PyInt(5)),
         width    |-> Get(cfg, "width", PyInt(5)),
         algo     |-> None]

\* The configurations the repository constructs detectors with.
basic_config ==
    [method |-> PyStr("bic"), model |-> PyStr("l2"), min_size |-> PyInt(2)]
custom_config ==
    [method |-> PyStr("pelt"), model |-> PyStr("l1"), min_size |-> PyInt(3),
     penalty |-> PyInt(2), n_bkps |-> PyInt(3)]
engine_config ==
    [method |-> PyStr("sisi"), penalty |-> PyInt(2), width |-> PyInt(7)]

Configs == {basic_config, custom_config, engine_config}

(***************************************************************************)
(* The segmentation library (ruptures), as detect uses it.  The library is *)
(* deterministic but its search is not part of the repository: each value  *)
(* of the seed fixes one function from a call's arguments to its outcome.  *)
(* An outcome is a strictly increasing list of indices in 1..n ending with *)
(* n, or the library rejecting the call.                                   *)
(***************************************************************************)
RptModels ==
    {"l1", "l2", "rbf", "linear", "normal", "ar", "cosine", "clinear", "rank", "mahalanobis"}

\* rpt.<Algo>(model=...) looks the cost function up by name
CostKnown(model) == model.t = "str" /\ model.v \in RptModels

MethodCode(m) ==
    CASE m = "bic" -> 0 [] m = "pelt" -> 1 [] m = "binseg" -> 2
      [] m = "bottomup" -> 3 [] m = "window" -> 4

RECURSIVE SortedSeq(_)
SortedSeq(S) ==
    IF S = {} THEN <<>>
    ELSE LET m == CHOOSE x \in S : \A y \in S : x <= y
         IN  <<m>> \o SortedSeq(S \ {m})

\* The arguments a _detect_* method hands to the library: the search class, the
\* model and min_size it is created with, and the keyword and value of predict.
SearchArgs(algo, self, kw, v) ==
    [algo |-> algo, model |-> self.model, min_size |-> self.min_size,
     predict |-> [kw |-> kw, v |-> v]]
NoArgs == [algo |-> "none", model |-> None, min_size |-> None,
           predict |-> [kw |-> "none", v |-> None]]

\* Outcome of a call into the library or into a _detect_* method: the exception
\* raised ("none" when it returns), the value returned, the library calls made
\* and the arguments they were made with.
Raised(e, calls) == [exc |-> e, val |-> <<>>, rpt |-> calls, args |-> NoArgs]
Returned(v, calls) == [exc |-> "none", val |-> v, rpt |-> calls, args |-> NoArgs]
Asked(out, args) == [out EXCEPT !.args = args]

\* algo.predict(n_bkps=k) / algo.predict(pen=p) on a fitted signal.
\* counted = TRUE for the searches that take a target breakpoint count.
RptPredict(seed, method, counted, param, signal) ==
    LET n == Len(signal)
        k == Pow2(n - 1) + 1
        mix == seed + MethodCode(method) + param + Sum(signal)
        idx == ((mix % k) + k) % k
        inner == {i \in 1..(n - 1) : (idx \div Pow2(i - 1)) % 2 = 1}
        all == SortedSeq(inner)
        kept == IF counted /\ Len(all) > param THEN SubSeq(all, 1, Max(param, 0)) ELSE all
    IN  IF idx = k - 1 THEN Raised("BadSegmentationParameters", <<"new", "fit", "predict">>)
        ELSE Returned(kept \o <<n>>, <<"new", "fit", "predict">>)

(***************************************************************************)
(* ChangePointDetector._detect_* : build the search, fit, predict, drop    *)
(* the trailing index.                                                     *)
(***************************************************************************)
\* (variant for C3: the trailing index is kept)
StripLast_Kept(changes, n) == changes

\* if changes and changes[-1] == len(signal): changes = changes[:-1]
StripLast(changes, n) ==
    IF Len(changes) > 0 /\ changes[Len(changes)] = n
    THEN SubSeq(changes, 1, Len(changes) - 1)
    ELSE changes

Stripped(out, n) ==
    IF out.exc = "none" THEN [out EXCEPT !.val = StripLast(out.val, n)] ELSE out

\* n_bkps = max(1, min(10, int(10/self.penalty)))
BicBkps(penalty) == Max(1, Min(10, TruncDiv(10, penalty)))

detect_bic(self, signal, seed) ==
    IF ~CostKnown(self.model) THEN Raised("ValueError", <<"new">>)
    ELSE IF self.penalty.t = "int"
         THEN IF self.penalty.v = 0
              THEN Asked(Raised("ZeroDivisionError", <<"new", "fit">>),
                         SearchArgs("Dynp", self, "none", None))
              ELSE Asked(Stripped(RptPredict(seed, "bic", TRUE, BicBkps(self.penalty.v), signal),
                                  Len(signal)),
                         SearchArgs("Dynp", self, "n_bkps", PyInt(BicBkps(self.penalty.v))))
         ELSE Asked(Stripped(RptPredict(seed, "bic", TRUE, self.n_bkps.v, signal), Len(signal)),
                    SearchArgs("Dynp", self, "n_bkps", self.n_bkps))

\* (variant for C27: the default penalty is used whatever is configured)
PeltPen_AlwaysDefault(self) == PyInt(3)

\* if self.penalty == 'default': pen = 3  else: pen = self.penalty
PeltPen(self) == IF self.penalty = PyStr("default") THEN PyInt(3) ELSE self.penalty

detect_pelt(self, signal, seed) ==
    IF ~CostKnown(self.model) THEN Raised("ValueError", <<"new">>)
    ELSE Asked(Stripped(RptPredict(seed, "pelt", FALSE, PeltPen(self).v, signal), Len(signal)),
               SearchArgs("Pelt", self, "pen", PeltPen(self)))

detect_binary_segmentation(self, signal, seed) ==
    IF ~CostKnown(self.model) THEN Raised("ValueError", <<"new">>)
    ELSE Asked(Stripped(RptPredict(seed, "binseg", TRUE, self.n_bkps.v, signal), Len(signal)),
               SearchArgs("Binseg", self, "n_bkps", self.n_bkps))

detect_bottom_up(self, signal, seed) ==
    IF ~CostKnown(self.model) THEN Raised("ValueError", <<"new">>)
    ELSE Asked(Stripped(RptPredict(seed, "bottomup", TRUE, self.n_bkps.v, signal), Len(signal)),
               SearchArgs("BottomUp", self, "n_bkps", self.n_bkps))

\* (variant for C21: the window width is passed as the breakpoint count)
detect_window_WidthAsCount(self, signal, seed) ==
    IF ~CostKnown(self.model) THEN Raised("ValueError", <<"new">>)
    ELSE Asked(Stripped(RptPredict(seed, "window", TRUE, self.width.v, signal), Len(signal)),
               SearchArgs("Window", self, "n_bkps", self.width))

detect_window(self, signal, seed) ==
    IF ~CostKnown(self.model) THEN Raised("ValueError", <<"new">>)
    ELSE Asked(Stripped(RptPredict(seed, "window", TRUE, self.n_bkps.v, signal), Len(signal)),
               SearchArgs("Window", self, "n_bkps", self.n_bkps))

(***************************************************************************)
(* ChangePointDetector.detect.  The result names the outcome (exc, val),   *)
(* the detector after the call (self) and the caller's list after the call *)
(* (value).                                                                *)
(***************************************************************************)
ErrorResult(fmt, arg) ==
    [change_points |-> <<>>, status |-> "error", message |-> [fmt |-> fmt, arg |-> arg]]

SuccessResult(change_points, method) ==
    [change_points |-> change_points, status |-> "success", method |-> method,
     message |-> [fmt |-> "", arg |-> None]]

\* return {'change_points': change_points, 'status': 'success', ...} once the
\* selected _detect_* method has returned; its exception propagates otherwise.
Finish(out, method) ==
    IF out.exc = "none"
    THEN [exc |-> "none", val |-> SuccessResult(out.val, method), rpt |-> out.rpt,
          args |-> out.args]
    ELSE [exc |-> out.exc, val |-> None, rpt |-> out.rpt, args |-> out.args]

\* (variant for C2: an unknown method falls through to the success return)
UnknownMethod_FallsThrough(self) ==
    [exc |-> "none", val |-> SuccessResult(<<>>, self.method), rpt |-> <<>>, args |-> NoArgs]

\* else: return {'change_points': [], 'status': 'error', 'message': f'Unknown method: ...'}
UnknownMethod(self) ==
    [exc |-> "none", val |-> ErrorResult("Unknown method: {}", self.method), rpt |-> <<>>,
     args |-> NoArgs]

\* (variant for C1: the length test is off by one)
TooShort_OffByOne(self, signal) == Len(signal) < self.min_size.v - 1

\* if len(signal) < self.min_size
TooShort(self, signal) == Len(signal) < self.min_size.v

DetectResult(self, signal, seed) ==
    IF TooShort(self, signal)
    THEN [exc |-> "none", val |-> ErrorResult("Time series too short", None),
          rpt |-> <<>>, args |-> NoArgs]
    ELSE CASE self.method = PyStr("bic") ->
                Finish(detect_bic(self, signal, seed), self.method)
           [] self.method = PyStr("pelt") ->
                Finish(detect_pelt(self, signal, seed), self.method)
           [] self.method = PyStr("binseg") ->
                Finish(detect_binary_segmentation(self, signal, seed), self.method)
           [] self.method = PyStr("bottomup") ->
                Finish(detect_bottom_up(self, signal, seed), self.method)
           [] self.method = PyStr("window") ->
                Finish(detect_window(self, signal, seed), self.method)
           [] OTHER -> UnknownMethod(self)

\* (variant for C9: the search object is kept on the detector, as the algo
\* attribute set up by __init__ suggests)
detect_KeepsAlgo(self, value, seed) ==
    LET res == DetectResult(self, value, seed)
    IN  [exc |-> res.exc, val |-> res.val, rpt |-> res.rpt, args |-> res.args,
         self |-> [self EXCEPT !.algo = IF res.rpt = <<>> THEN @ ELSE self.method],
         value |-> value]

detect(self, value, seed) ==
    LET signal == value    \* np.array(value): a copy of the caller's list
        res == DetectResult(self, signal, seed)
    IN  [exc |-> res.exc, val |-> res.val, rpt |-> res.rpt, args |-> res.args,
         self |-> self, value |-> value]

(***************************************************************************)
(* Mutators.  Each yields the exception raised ("none" when it returns)    *)
(* and the detector after the call.                                        *)
(***************************************************************************)
valid_methods == {"bic", "pelt", "binseg", "bottomup", "window"}
valid_models == {"l1", "l2", "rbf", "linear", "normal", "ar"}

\* (variant for C4: the method is stored without the membership test)
set_method_Unchecked(self, method) ==
    [exc |-> "none", self |-> [self EXCEPT !.method = PyStr(method)]]

set_method(self, method) ==
    IF method \notin valid_methods
    THEN [exc |-> "ValueError", self |-> self]
    ELSE [exc |-> "none", self |-> [self EXCEPT !.method = PyStr(method)]]

set_model(self, model) ==
    IF model \notin valid_models
    THEN [exc |-> "ValueError", self |-> self]
    ELSE [exc |-> "none", self |-> [self EXCEPT !.model = PyStr(model)]]

\* (variant for C6: setattr without the hasattr test)
set_params_SetsAll(self, params) ==
    [exc |-> "none",
     self |-> [a \in DOMAIN self \cup DOMAIN params |->
                  IF a \in DOMAIN params THEN params[a] ELSE self[a]]]

\* for param, value in params.items(): if hasattr(self, param): setattr(...)
set_params(self, params) ==
    [exc |-> "none",
     self |-> [a \in DOMAIN self |-> IF a \in DOMAIN params THEN params[a] ELSE self[a]]]

(***************************************************************************)
(* Inputs of the calls.                                                    *)
(***************************************************************************)
ShipCounts == {1, 9}
Series == UNION {[1..n -> ShipCounts] : n \in 0..MaxLen}

MethodInputs == valid_methods \cup {"invalid_method"}
ModelInputs == valid_models \cup {"invalid_model"}

\* Keyword sets passed to set_params: names of detector parameters and names
\* that are no attribute of the detector.
KwInputs ==
    { [min_size |-> PyInt(2), n_bkps |-> PyInt(1), penalty |-> PyInt(0),
       non_existent_param |-> PyInt(100)],
      [non_existent_param |-> PyInt(100)],
      [method |-> PyStr("invalid_method")],
      [model |-> PyStr("invalid_model")] }

(***************************************************************************)
(* The detector as a state machine: constructed, then any sequence of      *)
(* set_method / set_model / set_params / detect calls.                     *)
(***************************************************************************)
NoCall == [op |-> "init", arg |-> None, exc |-> "none", val |-> None, rpt |-> <<>>,
           after |-> None]

NoRun == [op |-> "init"]

NoPool == [reqs |-> <<>>, frames |-> <<>>]

Init ==
    /\ \E config \in Configs : det = ChangePointDetectorInit(config)
    /\ lib \in 0..(LibSeeds - 1)
    /\ ret = NoCall
    /\ first = NoCall
    /\ store = <<>>
    /\ run = NoRun
    /\ pool = NoPool

SetMethod(method) ==
    LET r == set_method(det, method)
    IN  /\ det' = r.self
        /\ ret' = [op |-> "set_method", arg |-> method, exc |-> r.exc, val |-> None,
                   rpt |-> <<>>, after |-> method]
        /\ UNCHANGED <<lib, first, store, run, pool>>

SetModel(model) ==
    LET r == set_model(det, model)
    IN  /\ det' = r.self
        /\ ret' = [op |-> "set_model", arg |-> model, exc |-> r.exc, val |-> None,
                   rpt |-> <<>>, after |-> model]
        /\ UNCHANGED <<lib, first, store, run, pool>>

SetParams(params) ==
    LET r == set_params(det, params)
    IN  /\ det' = r.self
        /\ ret' = [op |-> "set_params", arg |-> params, exc |-> r.exc, val |-> None,
                   rpt |-> <<>>, after |-> params]
        /\ UNCHANGED <<lib, first, store, run, pool>>

DetectCall(value) ==
    LET r == detect(det, value, lib)
    IN  /\ det' = r.self
        /\ ret' = [op |-> "detect", arg |-> value, exc |-> r.exc, val |-> r.val,
                   rpt |-> r.rpt, args |-> r.args, after |-> r.value]

Detect(value) ==
    /\ DetectCall(value)
    /\ UNCHANGED <<lib, first, store, run, pool>>

Next ==
    \/ \E method \in MethodInputs : SetMethod(method)
    \/ \E model \in ModelInputs : SetModel(model)
    \/ \E params \in KwInputs : SetParams(params)
    \/ \E value \in Series : Detect(value)

Spec == Init /\ [][Next]_vars

(***************************************************************************)
(* Repeated detection on one detector: the configurations the repository's *)
(* tests and entry points construct, then detect calls only.  The outcome  *)
(* of the first call is remembered, and whether a detect call on another   *)
(* series has been made since.                                             *)
(***************************************************************************)
TestConfigs ==
    Configs \cup
    { [method |-> PyStr("binseg")],
      [method |-> PyStr("pelt"), penalty |-> PyInt(2)],
      [method |-> PyStr("pelt"), penalty |-> PyInt(4)],
      [method |-> PyStr("binseg"), n_bkps |-> PyInt(3)],
      [method |-> PyStr("bottomup"), n_bkps |-> PyInt(3)],
      [method |-> PyStr("window"), width |-> PyInt(3), n_bkps |-> PyInt(3)],
      [method |-> PyStr("unknown_method")] }

InitRepeat ==
    /\ \E config \in TestConfigs : det = ChangePointDetectorInit(config)
    /\ lib \in 0..(LibSeeds - 1)
    /\ ret = NoCall
    /\ first = NoCall
    /\ store = <<>>
    /\ run = NoRun
    /\ pool = NoPool

DetectAgain(value) ==
    /\ DetectCall(value)
    /\ first' = IF first.op = "init" THEN [op |-> "first", call |-> ret', between |-> FALSE]
                ELSE [first EXCEPT !.between = @ \/ value # first.call.arg]
    /\ UNCHANGED <<lib, store, run, pool>>

NextRepeat == \E value \in Series : DetectAgain(value)

SpecRepeat == InitRepeat /\ [][NextRepeat]_vars

(***************************************************************************)
(* Calendar arithmetic of the loaders: datetime.strptime, timedelta,       *)
(* pandas.DateOffset(months=...) and strftime("%Y%m%d").  A date is        *)
(* <<year, month, day>>.                                                   *)
(***************************************************************************)
IsLeap(y) == (y % 4 = 0 /\ y % 100 # 0) \/ y % 400 = 0

DaysInMonth(y, m) ==
    IF m = 2 THEN (IF IsLeap(y) THEN 29 ELSE 28)
    ELSE IF m \in {4, 6, 9, 11} THEN 30 ELSE 31

\* datetime.strptime(str(run_date), "%Y-%m-%d") accepts the fields of a real date
ValidDate(d) == d[2] \in 1..12 /\ d[3] \in 1..DaysInMonth(d[1], d[2])

DaysBeforeYear(y) == 365 * (y - 1) + ((y - 1) \div 4) - ((y - 1) \div 100) + ((y - 1) \div 400)

RECURSIVE DaysBeforeMonth(_, _)
DaysBeforeMonth(y, m) ==
    IF m = 1 THEN 0 ELSE DaysBeforeMonth(y, m - 1) + DaysInMonth(y, m - 1)

ToOrdinal(d) == DaysBeforeYear(d[1]) + DaysBeforeMonth(d[1], d[2]) + d[3]

FromOrdinal(n) ==
    LET y == CHOOSE yy \in 2015..2035 : DaysBeforeYear(yy) < n /\ n <= DaysBeforeYear(yy + 1)
        r == n - DaysBeforeYear(y)
        m == CHOOSE mm \in 1..12 :
                DaysBeforeMonth(y, mm) < r /\ r <= DaysBeforeMonth(y, mm) + DaysInMonth(y, mm)
    IN  <<y, m, r - DaysBeforeMonth(y, m)>>

\* date - timedelta(days=day)
MinusDays(d, day) == FromOrdinal(ToOrdinal(d) - day)

\* date - pd.DateOffset(months=month): the month moves, the day is cut down to
\* the last day of the month reached
MinusMonths(d, month) ==
    LET total == d[1] * 12 + (d[2] - 1) - month
        y == total \div 12
        m == (total % 12) + 1
    IN  <<y, m, Min(d[3], DaysInMonth(y, m))>>

\* int(date.strftime("%Y%m%d"))
DateId(d) == d[1] * 10000 + d[2] * 100 + d[3]

\* start_date_obj = run_date_obj - timedelta(days=day) - pd.DateOffset(months=month)
StartDate(run_date, month, day) == MinusMonths(MinusDays(run_date, day), month)

(***************************************************************************)
(* The pipeline entry points: pipe_detect_engine and plot_ship_congestion. *)
(* A row of the table is [pipe_name, date_id, ship_cnt].  The outcome of a *)
(* run names the exception raised ("none" when it returns), the value      *)
(* returned, and every call made to detector.detect with the rows whose    *)
(* ship counts it was given.                                               *)
(***************************************************************************)
\* (variant for C10: the upper end of the window is not tested)
InWindow_NoUpperEnd(row, start_date_id, run_date_id) == row.date_id >= start_date_id

\* (group['date_id'] >= start_date_id) & (group['date_id'] <= run_date_id)
InWindow(row, start_date_id, run_date_id) ==
    row.date_id >= start_date_id /\ row.date_id <= run_date_id

RECURSIVE Filter(_, _, _, _)
Filter(rows, start_date_id, run_date_id, i) ==
    IF i > Len(rows) THEN <<>>
    ELSE (IF InWindow(rows[i], start_date_id, run_date_id) THEN <<rows[i]>> ELSE <<>>)
            \o Filter(rows, start_date_id, run_date_id, i + 1)

\* SELECT * FROM ship_cnt_in_pipe WHERE pipe_name = '<pipe_name>'
\* df[df["pipe_name"] == pipe_name]
RECURSIVE OfPipe(_, _, _)
OfPipe(rows, pipe_name, i) ==
    IF i > Len(rows) THEN <<>>
    ELSE (IF rows[i].pipe_name = pipe_name THEN <<rows[i]>> ELSE <<>>)
            \o OfPipe(rows, pipe_name, i + 1)

\* group["ship_cnt"].tolist()
ShipCnt(rows) == [i \in 1..Len(rows) |-> rows[i].ship_cnt]

\* df.iloc[positions]: positions count from 0
Iloc(rows, positions) == [i \in 1..Len(positions) |-> rows[positions[i] + 1]]

\* pipe_df.sort_values('date_str'): rows by ascending date
RECURSIVE SortByDate(_)
SortByDate(rows) ==
    IF rows = <<>> THEN <<>>
    ELSE LET i == CHOOSE k \in 1..Len(rows) :
                    /\ \A j \in 1..Len(rows) : rows[k].date_id <= rows[j].date_id
                    /\ \A j \in 1..(k - 1) : rows[j].date_id # rows[k].date_id
         IN  <<rows[i]>> \o SortByDate(SubSeq(rows, 1, i - 1) \o SubSeq(rows, i + 1, Len(rows)))

\* Binding of a call detector.detect(*args, **kwargs) to def detect(self, value)
CallDetect(self, args, kwargs, seed) ==
    IF Len(args) # 1 \/ kwargs # {}
    THEN [exc |-> "TypeError", val |-> None, rpt |-> <<>>, self |-> self, value |-> None]
    ELSE detect(self, args[1], seed)

\* if group.empty: continue
\* changepoints_result[pipe_name] = group.iloc[result["change_points"]]
ChangepointsResult(group, pipe_name, change_points) ==
    IF Len(group) = 0 THEN <<>>
    ELSE <<[pipe_name |-> pipe_name, changepoints_df |-> Iloc(group, change_points)]>>

pipe_detect_engine(table, run_date, pipe_name, month, day, seed) ==
    LET detector == ChangePointDetectorInit(engine_config)
        df == OfPipe(table, pipe_name, 1)
        \* df.groupby("pipe_name"): the query leaves the rows of one channel,
        \* so the loop body runs once, on group = df
        group0 == df
        start_date_id == DateId(StartDate(run_date, month, day))
        run_date_id == DateId(run_date)
        group == Filter(group0, start_date_id, run_date_id, 1)
        call == [rows |-> group, args |-> <<ShipCnt(group)>>, kwargs |-> {"pipe_name"}]
        result == CallDetect(detector, call.args, call.kwargs, seed)
    IN  IF Len(df) = 0 THEN [exc |-> "ValueError", val |-> None, calls |-> <<>>]
        ELSE IF ~ValidDate(run_date) THEN [exc |-> "ValueError", val |-> None, calls |-> <<>>]
        ELSE IF Len(group) = 0 THEN [exc |-> "none", val |-> <<>>, calls |-> <<>>]
        ELSE IF result.exc # "none" THEN [exc |-> result.exc, val |-> None, calls |-> <<call>>]
        ELSE [exc |-> "none",
              val |-> ChangepointsResult(group, pipe_name, result.val.change_points),
              calls |-> <<call>>]

plot_ship_congestion(table, run_date, pipe_name, month, day, seed) ==
    LET detector == ChangePointDetectorInit(engine_config)
        pipe_df0 == OfPipe(table, pipe_name, 1)
        start_date_id == DateId(StartDate(run_date, month, day))
        run_date_id == DateId(run_date)
        pipe_df1 == Filter(pipe_df0, start_date_id, run_date_id, 1)
        pipe_df == SortByDate(pipe_df1)
        ship_counts == ShipCnt(pipe_df)
        call == [rows |-> pipe_df, args |-> <<ship_counts, pipe_name>>, kwargs |-> {}]
        result == CallDetect(detector, call.args, call.kwargs, seed)
    IN  IF ~ValidDate(run_date) THEN [exc |-> "ValueError", val |-> None, calls |-> <<>>]
        ELSE IF Len(pipe_df1) = 0 THEN [exc |-> "ValueError", val |-> None, calls |-> <<>>]
        ELSE IF result.exc # "none" THEN [exc |-> result.exc, val |-> None, calls |-> <<call>>]
        ELSE [exc |-> "none", val |-> PyStr("output_path"), calls |-> <<call>>]

(***************************************************************************)
(* The loaders as a state machine: a persisted table, then any sequence of *)
(* runs of the two entry points.                                           *)
(***************************************************************************)
MaxRows == 2       \* most rows in the persisted table

Pipes == {"malacca", "mandeb"}
PipeInputs == Pipes \cup {"suez"}
RowUniverse ==
    { [pipe_name |-> "malacca", date_id |-> 20231130, ship_cnt |-> 1],
      [pipe_name |-> "malacca", date_id |-> 20231231, ship_cnt |-> 9],
      [pipe_name |-> "malacca", date_id |-> 20240101, ship_cnt |-> 1],
      [pipe_name |-> "mandeb", date_id |-> 20231130, ship_cnt |-> 9],
      [pipe_name |-> "mandeb", date_id |-> 20231231, ship_cnt |-> 1],
      [pipe_name |-> "mandeb", date_id |-> 20240101, ship_cnt |-> 9] }
Tables == UNION {[1..n -> RowUniverse] : n \in 0..MaxRows}

RunDates == {<<2023, 12, 31>>, <<2023, 12, 30>>, <<2023, 2, 30>>}
Lookbacks == {<<1, 0>>, <<0, 30>>}

InitLoad ==
    /\ det = ChangePointDetectorInit(engine_config)
    /\ lib = 0
    /\ ret = NoCall
    /\ first = NoCall
    /\ store \in Tables
    /\ run = NoRun
    /\ pool = NoPool

Ran(op, run_date, pipe_name, lookback, r) ==
    [op |-> op, run_date |-> run_date, pipe_name |-> pipe_name, month |-> lookback[1],
     day |-> lookback[2], exc |-> r.exc, val |-> r.val, calls |-> r.calls]

PipeDetectEngine(run_date, pipe_name, lookback) ==
    /\ run' = Ran("pipe_detect_engine", run_date, pipe_name, lookback,
                  pipe_detect_engine(store, run_date, pipe_name, lookback[1], lookback[2], lib))
    /\ UNCHANGED <<det, lib, ret, first, store, pool>>

PlotShipCongestion(run_date, pipe_name, lookback) ==
    /\ run' = Ran("plot_ship_congestion", run_date, pipe_name, lookback,
                  plot_ship_congestion(store, run_date, pipe_name, lookback[1], lookback[2], lib))
    /\ UNCHANGED <<det, lib, ret, first, store, pool>>

NextLoad ==
    \/ \E d \in RunDates, p \in PipeInputs, l \in Lookbacks : PipeDetectEngine(d, p, l)
    \/ \E d \in RunDates, p \in PipeInputs, l \in Lookbacks : PlotShipCongestion(d, p, l)

SpecLoad == InitLoad /\ [][NextLoad]_vars

(***************************************************************************)
(* The language services and the explanation chain (analyze_congestion).   *)
(* A text is a sequence of pieces of characters.  The opening tag is the   *)
(* two pieces "<thi" "nk>" and the closing tag "</thi" "nk>", so that a    *)
(* tag can stand in a text whole, or in halves with other text in between; *)
(* no other neighbouring pieces spell a tag.  A remote is what one HTTP    *)
(* exchange with a service does: it times out, answers with an error       *)
(* status, or answers with a JSON body.                                    *)
(***************************************************************************)
MaxText == 2       \* most words in a text answered by the rephrase service

OpenTag == <<"<thi", "nk>">>
CloseTag == <<"</thi", "nk>">>

RECURSIVE Join(_)
Join(words) == IF words = <<>> THEN <<>> ELSE Head(words) \o Join(Tail(words))

TextWords == {OpenTag, CloseTag, <<" ">>, <<"s">>}
Texts == {Join(ws) : ws \in UNION {[1..n -> TextWords] : n \in 0..MaxText}}
WebTexts == {<<"w">>, OpenTag \o <<"w">> \o CloseTag}

\* str.strip(): blanks and line ends at both ends are dropped
Whitespace == {" ", "\n"}

RECURSIVE LStrip(_)
LStrip(s) == IF s # <<>> /\ Head(s) \in Whitespace THEN LStrip(Tail(s)) ELSE s

RECURSIVE RStrip(_)
RStrip(s) ==
    IF s # <<>> /\ s[Len(s)] \in Whitespace THEN RStrip(SubSeq(s, 1, Len(s) - 1)) ELSE s

Strip(s) == RStrip(LStrip(s))

\* the tag stands in s from piece i on
TagAt(tag, s, i) == i + 1 <= Len(s) /\ s[i] = tag[1] /\ s[i + 1] = tag[2]

\* re.sub(r'<think>.*?</think>', '', content, flags=re.DOTALL): one pass from
\* the left; an opening tag with a closing tag somewhere after it (line ends
\* included) is dropped together with everything up to the nearest closing
\* tag, and the pass goes on behind what it dropped
RECURSIVE ReSubThink(_)
ReSubThink(s) ==
    IF s = <<>> THEN <<>>
    ELSE IF TagAt(OpenTag, s, 1) /\ \E j \in 3..Len(s) : TagAt(CloseTag, s, j)
         THEN LET j == CHOOSE k \in 3..Len(s) :
                            TagAt(CloseTag, s, k) /\ \A i \in 3..(k - 1) : ~TagAt(CloseTag, s, i)
              IN  ReSubThink(SubSeq(s, j + 2, Len(s)))
         ELSE <<Head(s)>> \o ReSubThink(Tail(s))

remove_think_tag(content) == Strip(ReSubThink(content))

OkBody(text) == [choices |-> <<[message |-> [content |-> text]]>>]
Bodies(texts) ==
    {OkBody(t) : t \in texts}
        \cup {[choices |-> <<>>], [choices |-> <<[index |-> 0]>>],
              [choices |-> <<[message |-> [role |-> "assistant"]]>>],
              [error |-> "invalid_request"]}
Remotes(texts) ==
    {[kind |-> "timeout"], [kind |-> "http_error"]}
        \cup {[kind |-> "json", body |-> b] : b \in Bodies(texts)}

\* search_and_ask: requests.post, raise_for_status, response.json(); a
\* RequestException becomes the dict {"error": str(e)}
search_and_ask(remote) ==
    IF remote.kind = "json" THEN remote.body ELSE [error |-> remote.kind]

\* (variant for C17: the lookup falls back on a default text, as
\* response.get("choices", [{}])[0].get("message", {}).get("content", ...) would)
Content_Lenient(resp) ==
    IF /\ "choices" \in DOMAIN resp /\ Len(resp.choices) > 0
       /\ "message" \in DOMAIN resp.choices[1]
       /\ "content" \in DOMAIN resp.choices[1].message
    THEN [exc |-> "none", val |-> resp.choices[1].message.content]
    ELSE [exc |-> "none", val |-> <<"s">>]

\* response["choices"][0]["message"]["content"]
Content(resp) ==
    IF "choices" \notin DOMAIN resp THEN [exc |-> "KeyError", val |-> None]
    ELSE IF Len(resp.choices) = 0 THEN [exc |-> "IndexError", val |-> None]
    ELSE IF "message" \notin DOMAIN resp.choices[1] THEN [exc |-> "KeyError", val |-> None]
    ELSE IF "content" \notin DOMAIN resp.choices[1].message
         THEN [exc |-> "KeyError", val |-> None]
    ELSE [exc |-> "none", val |-> resp.choices[1].message.content]

\* DeepSeekClient() / SISIClient(): api_key or get_token_from_env(key_name)
ClientInit(env, key_name) ==
    IF key_name \in env THEN [exc |-> "none"] ELSE [exc |-> "ValueError"]

\* (variant for C18: an empty table yields a row that names no day)
LastRow_Placeholder(changepoints) ==
    IF Len(changepoints) = 0
    THEN [exc |-> "none", val |-> <<[pipe_name |-> "", date_id |-> 0, ship_cnt |-> 0]>>]
    ELSE [exc |-> "none", val |-> <<changepoints[Len(changepoints)]>>]

\* (variant for C24: the first row of the table is explained)
LastRow_First(changepoints) ==
    IF Len(changepoints) = 0
    THEN [exc |-> "IndexError", val |-> <<>>]
    ELSE [exc |-> "none", val |-> <<changepoints[1]>>]

\* changepoints.iloc[[-1], :]
LastRow(changepoints) ==
    IF Len(changepoints) = 0
    THEN [exc |-> "IndexError", val |-> <<>>]
    ELSE [exc |-> "none", val |-> <<changepoints[Len(changepoints)]>>]

\* WEB_SEARCH_WEATHER_NEWS.format(date_id=..., pipe_name=...)
WeatherNewsQuestion(date_id, pipe_name) ==
    [fmt |-> "WEB_SEARCH_WEATHER_NEWS", date_id |-> date_id, pipe_name |-> pipe_name]

\* (variant for C16: the web-search text is kept in front of the summary)
detection_record_WithSearchText(date_id, pipe_name, weather_news_text, summary_content) ==
    [date_id |-> date_id, pipe_name |-> pipe_name,
     detection |-> weather_news_text \o remove_think_tag(summary_content)]

\* {"date_id": ..., "pipe_name": ..., "detection": remove_think_tag(...)}
detection_record(date_id, pipe_name, weather_news_text, summary_content) ==
    [date_id |-> date_id, pipe_name |-> pipe_name,
     detection |-> remove_think_tag(summary_content)]

\* The outcome of the chain: the exception raised ("none" when it returns), the
\* text returned, and the questions put to the services, in order.
Explained(exc, val, asked) == [exc |-> exc, val |-> val, asked |-> asked]

analyze_congestion(pipe_name, changepoints, env, ds_remote, sisi_remote) ==
    LET changepoints_result == LastRow(changepoints)
        ds_client == ClientInit(env, "DEEPSEEK_API_KEY")
        sisi_client == ClientInit(env, "SISI_API_KEY")
        \* the loop body runs once, on the one row of changepoints_result
        row == changepoints_result.val[1]
        ask1 == [service |-> "deepseek",
                 question |-> WeatherNewsQuestion(row.date_id, row.pipe_name)]
        weather_news_text == Content(search_and_ask(ds_remote))
        ask2 == [service |-> "sisi", question |-> weather_news_text.val]
        summary_content == Content(search_and_ask(sisi_remote))
        record == detection_record(row.date_id, row.pipe_name,
                                   weather_news_text.val, summary_content.val)
    IN  IF changepoints_result.exc # "none"
        THEN Explained(changepoints_result.exc, None, <<>>)
        ELSE IF ds_client.exc # "none" THEN Explained(ds_client.exc, None, <<>>)
        ELSE IF sisi_client.exc # "none" THEN Explained(sisi_client.exc, None, <<>>)
        ELSE IF weather_news_text.exc # "none"
             THEN Explained(weather_news_text.exc, None, <<ask1>>)
        ELSE IF summary_content.exc # "none"
             THEN Explained(summary_content.exc, None, <<ask1, ask2>>)
        ELSE Explained("none", record.detection, <<ask1, ask2>>)

\* The outcome of a request: the outcome of the chain, with the calls the
\* loader made to detect.
Requested(exc, val, calls, asked) ==
    [exc |-> exc, val |-> val, calls |-> calls, asked |-> asked]

\* changepoints_result[pipe_name] on the dict returned by pipe_detect_engine
Lookup(dict, pipe_name) ==
    IF \E i \in 1..Len(dict) : dict[i].pipe_name = pipe_name
    THEN [exc |-> "none",
          val |-> dict[CHOOSE i \in 1..Len(dict) : dict[i].pipe_name = pipe_name].changepoints_df]
    ELSE [exc |-> "KeyError", val |-> None]

trigger_traffic_detect(table, run_date, pipe_name, env, ds_remote, sisi_remote, seed) ==
    LET Analyze(changepoints_result) ==
            LET changepoints == Lookup(changepoints_result.val, pipe_name)
                detection_text == analyze_congestion(pipe_name, changepoints.val, env,
                                                     ds_remote, sisi_remote)
            IN  IF changepoints_result.exc # "none"
                THEN Requested(changepoints_result.exc, None, changepoints_result.calls, <<>>)
                ELSE IF changepoints.exc # "none"
                     THEN Requested(changepoints.exc, None, changepoints_result.calls, <<>>)
                ELSE Requested(detection_text.exc, detection_text.val,
                               changepoints_result.calls, detection_text.asked)
    IN  Analyze(pipe_detect_engine(table, run_date, pipe_name, 1, 0, seed))

\* run_app: the same pipeline on the command line's --run_date and --pipe;
\* nothing is returned
run_app(table, run_date, pipe_name, env, ds_remote, sisi_remote, seed) ==
    LET Analyze(changepoints_result) ==
            LET changepoints == Lookup(changepoints_result.val, pipe_name)
                detection_text == analyze_congestion(pipe_name, changepoints.val, env,
                                                     ds_remote, sisi_remote)
            IN  IF changepoints_result.exc # "none"
                THEN Requested(changepoints_result.exc, None, changepoints_result.calls, <<>>)
                ELSE IF changepoints.exc # "none"
                     THEN Requested(changepoints.exc, None, changepoints_result.calls, <<>>)
                ELSE Requested(detection_text.exc, None,
                               changepoints_result.calls, detection_text.asked)
    IN  Analyze(pipe_detect_engine(table, run_date, pipe_name, 1, 0, seed))

(***************************************************************************)
(* parse_question (the same text in dify_api_server, mcp_server_http and   *)
(* mcp_server_stdio).  A question is a sequence of characters; a character *)
(* of the CJK block is written by its pinyin ("nian" and "yue" are the     *)
(* year and month marks), "?" is the full-width question mark.             *)
(***************************************************************************)
DigitChars == <<"0", "1", "2", "3", "4", "5", "6", "7", "8", "9">>
Digit == {DigitChars[i] : i \in 1..10}
DigitVal(c) == (CHOOSE i \in 1..10 : DigitChars[i] = c) - 1
CJK == {"nian", "yue", "man", "de", "hai", "xia", "ma", "liu", "jia", "su", "yi2", "shi4",
        "shi", "fou", "hui", "bu", "you", "wu", "fa", "sheng", "yi", "chang", "du", "se"}
Space == {" "}
\* [<CJK block>\w\-\s]: CJK characters, word characters, dash, blanks
NameChar == CJK \cup Digit \cup Space \cup {"-", "_"}
\* [:\s,<full-width comma><full-width stop>]
SepChar == Space \cup {":", ",", "fw-comma", "fw-stop"}

IsAt(s, i, set) == i >= 1 /\ i <= Len(s) /\ s[i] \in set

\* the number of characters of the set that follow each other from position i on
RECURSIVE RunLen(_, _, _)
RunLen(s, i, set) == IF IsAt(s, i, set) THEN 1 + RunLen(s, i + 1, set) ELSE 0

\* int(group): the value of the n digits from position i on
RECURSIVE IntOf(_, _, _)
IntOf(s, i, n) ==
    IF n = 0 THEN 0 ELSE IntOf(s, i, n - 1) * 10 + DigitVal(s[i + n - 1])

NoMatch == [ok |-> FALSE, year |-> 0, month |-> 0, end |-> 0]

\* (\d{4})\s*<nian>\s*(\d{1,2})\s*<yue> matched from position i; end is the
\* position after the match
MatchYearMonthMarks(s, i) ==
    LET a == i + 4 + RunLen(s, i + 4, Space)
        b == a + 1 + RunLen(s, a + 1, Space)
        n == Min(RunLen(s, b, Digit), 2)
        c == b + n + RunLen(s, b + n, Space)
    IN  IF /\ \A k \in i..(i + 3) : IsAt(s, k, Digit)
           /\ IsAt(s, a, {"nian"})
           /\ n >= 1
           /\ IsAt(s, c, {"yue"})
        THEN [ok |-> TRUE, year |-> IntOf(s, i, 4), month |-> IntOf(s, b, n), end |-> c + 1]
        ELSE NoMatch

\* (\d{4})[-/](\d{1,2}) matched from position i
MatchYearMonthDash(s, i) ==
    LET n == Min(RunLen(s, i + 5, Digit), 2)
    IN  IF /\ \A k \in i..(i + 3) : IsAt(s, k, Digit)
           /\ IsAt(s, i + 4, {"-", "/"})
           /\ n >= 1
        THEN [ok |-> TRUE, year |-> IntOf(s, i, 4), month |-> IntOf(s, i + 5, n),
              end |-> i + 5 + n]
        ELSE NoMatch

\* re.search: the match at the least position; the second pattern is tried
\* when the first matches nowhere
SearchYearMonth(s) ==
    LET marks == {i \in 1..Len(s) : MatchYearMonthMarks(s, i).ok}
        dash == {i \in 1..Len(s) : MatchYearMonthDash(s, i).ok}
    IN  IF marks # {} THEN MatchYearMonthMarks(s, CHOOSE i \in marks : \A j \in marks : i <= j)
        ELSE IF dash # {}
             THEN MatchYearMonthDash(s, CHOOSE i \in dash : \A j \in dash : i <= j)
        ELSE NoMatch

\* [:\s,..]*(?P<name>[...]{2,20}) matched from position p: the separators are
\* taken greedily and given back one by one until two name characters follow
NameSkips(s, p) ==
    {k \in 0..RunLen(s, p, SepChar) : RunLen(s, p + k, NameChar) >= 2}

SearchName(s) ==
    LET starts == {p \in 1..Len(s) : NameSkips(s, p) # {}}
        p == CHOOSE q \in starts : \A r \in starts : q <= r
        k == CHOOSE j \in NameSkips(s, p) : \A l \in NameSkips(s, p) : j >= l
    IN  IF starts = {} THEN [ok |-> FALSE, name |-> <<>>]
        ELSE [ok |-> TRUE,
              name |-> SubSeq(s, p + k, p + k + Min(RunLen(s, p + k, NameChar), 20) - 1)]

OccursAt(w, s, i) == i + Len(w) - 1 <= Len(s) /\ SubSeq(s, i, i + Len(w) - 1) = w
Occurs(w, s) == \E i \in 1..Len(s) : OccursAt(w, s, i)

StopWords == { <<"shi", "fou">>, <<"hui", "bu", "hui">>, <<"you", "wu">>,
               <<"fa", "sheng">>, <<"yi", "chang">>, <<"du", "se">> }

\* re.split(r"<the stop words>", candidate)[0]
BeforeStopWord(s) ==
    LET at == {i \in 1..Len(s) : \E w \in StopWords : OccursAt(w, s, i)}
    IN  IF at = {} THEN s
        ELSE SubSeq(s, 1, (CHOOSE i \in at : \A j \in at : i <= j) - 1)

ManDeHaiXia == <<"man", "de", "hai", "xia">>
MaLiuJiaHaiXia == <<"ma", "liu", "jia", "hai", "xia">>
MaLiuJia == <<"ma", "liu", "jia">>
known == <<ManDeHaiXia, MaLiuJiaHaiXia, MaLiuJia>>

Parsed(exc, run_date, pipe) == [exc |-> exc, run_date |-> run_date, pipe |-> pipe]

\* last_day = calendar.monthrange(year, month)[1];
\* run_date = f"{year:04d}-{month:02d}-{last_day:02d}"
LastDay(year, month) ==
    IF month \in 1..12
    THEN [exc |-> "none", val |-> PyStr(<<year, month, DaysInMonth(year, month)>>)]
    ELSE [exc |-> "IllegalMonthError", val |-> None]

parse_question(question) ==
    LET hits == {k \in 1..Len(known) : Occurs(known[k], question)}
        \* for known in [...]: if known in question: pipe_name = known; break
        first_known == IF hits # {} THEN known[CHOOSE k \in hits : \A l \in hits : k <= l]
                       ELSE <<>>
        Pipe(candidate) == IF candidate # <<>> THEN candidate ELSE first_known
        \* candidate = m.group("name").strip(); re.split(...)[0].strip()
        Name(m) == Pipe(IF m.ok THEN Strip(BeforeStopWord(Strip(m.name))) ELSE <<>>)
        Result(run_date, pipe) ==
            IF run_date.exc # "none" THEN Parsed(run_date.exc, None, None)
            ELSE Parsed("none", run_date.val, IF pipe = <<>> THEN None ELSE PyStr(Strip(pipe)))
        Dated(ym_match) ==
            IF ym_match.ok
            THEN Result(LastDay(ym_match.year, ym_match.month),
                        Name(SearchName(SubSeq(question, ym_match.end, Len(question)))))
            ELSE Result([exc |-> "none", val |-> None], first_known)
    IN  IF question = <<>> THEN Parsed("none", None, None)
        ELSE Dated(SearchYearMonth(question))

\* The channel a parsed name stands for in the table: the table's identifier
\* of the strait with that name, or a name no row carries.
Channel(name) ==
    IF name = ManDeHaiXia THEN "mandeb"
    ELSE IF name = MaLiuJiaHaiXia THEN "malacca"
    ELSE "suez"

(***************************************************************************)
(* The handlers of the three front ends.  The outcome of a handler names   *)
(* the exception it raises ("none" when it answers), the kind of answer    *)
(* and the text it carries, whether the loader was run, the calls made to  *)
(* detect and the questions put to the language services.                  *)
(***************************************************************************)
Answered(exc, kind, text, loaded, calls, asked) ==
    [exc |-> exc, reply |-> [kind |-> kind, text |-> text], loaded |-> loaded,
     calls |-> calls, asked |-> asked]

Unparsed(parsed) == parsed.run_date.t = "none" \/ parsed.pipe.t = "none"

\* if len(changepoints_result) > 0: the anomaly text with
\* changepoints_result[pipe_name].shape[0] days;  else: the no-anomaly text
DetectionReport(changepoints_result, pipe_name) ==
    LET days == Lookup(changepoints_result, pipe_name)
    IN  IF Len(changepoints_result) = 0
        THEN [exc |-> "none", kind |-> "no_anomaly", text |-> None]
        ELSE IF days.exc # "none" THEN [exc |-> days.exc, kind |-> "none", text |-> None]
        ELSE [exc |-> "none", kind |-> "anomaly", text |-> PyInt(Len(days.val))]

\* dify_api_server: POST /api/detect_congestion; every exception becomes an
\* HTTPException with status 500
detect_congestion(question, table, seed) ==
    LET Reply(parsed) ==
            LET pipe_name == Channel(parsed.pipe.v)
                Told(report, calls) ==
                    IF report.exc # "none"
                    THEN Answered("HTTPException", "none", None, TRUE, calls, <<>>)
                    ELSE Answered("none", report.kind, report.text, TRUE, calls, <<>>)
                Report(changepoints_result) ==
                    IF changepoints_result.exc # "none"
                    THEN Answered("HTTPException", "none", None, TRUE,
                                  changepoints_result.calls, <<>>)
                    ELSE Told(DetectionReport(changepoints_result.val, pipe_name),
                              changepoints_result.calls)
            IN  IF parsed.exc # "none"
                THEN Answered("HTTPException", "none", None, FALSE, <<>>, <<>>)
                ELSE IF Unparsed(parsed)
                     THEN Answered("none", "unparsed", None, FALSE, <<>>, <<>>)
                ELSE Report(pipe_detect_engine(table, parsed.run_date.v, pipe_name,
                                                      1, 0, seed))
    IN  Reply(parse_question(question))

\* dify_api_server: POST /api/ask_question
ask_question(question, table, env, ds_remote, sisi_remote, seed) ==
    LET Reply(parsed) ==
            LET Report(analysis_result) ==
                    IF analysis_result.exc # "none"
                    THEN Answered("HTTPException", "none", None, TRUE,
                                  analysis_result.calls, analysis_result.asked)
                    ELSE Answered("none", "analysis", analysis_result.val, TRUE,
                                  analysis_result.calls, analysis_result.asked)
            IN  IF parsed.exc # "none"
                THEN Answered("HTTPException", "none", None, FALSE, <<>>, <<>>)
                ELSE IF Unparsed(parsed)
                     THEN Answered("none", "unparsed", None, FALSE, <<>>, <<>>)
                ELSE Report(trigger_traffic_detect(table, parsed.run_date.v,
                                       Channel(parsed.pipe.v), env, ds_remote, sisi_remote,
                                       seed))
    IN  Reply(parse_question(question))

\* mcp_server_http: tool detect_traffic_congestion; nothing is caught
detect_traffic_congestion(question, table, seed) ==
    LET Reply(parsed) ==
            LET pipe_name == Channel(parsed.pipe.v)
                Told(report, calls) ==
                    IF report.exc # "none"
                    THEN Answered(report.exc, "none", None, TRUE, calls, <<>>)
                    ELSE Answered("none", report.kind, report.text, TRUE, calls, <<>>)
                Report(changepoints_result) ==
                    IF changepoints_result.exc # "none"
                    THEN Answered(changepoints_result.exc, "none", None, TRUE,
                                  changepoints_result.calls, <<>>)
                    ELSE Told(DetectionReport(changepoints_result.val, pipe_name),
                              changepoints_result.calls)
            IN  IF parsed.exc # "none"
                THEN Answered(parsed.exc, "none", None, FALSE, <<>>, <<>>)
                ELSE IF Unparsed(parsed)
                     THEN Answered("none", "unparsed", None, FALSE, <<>>, <<>>)
                ELSE Report(pipe_detect_engine(table, parsed.run_date.v, pipe_name,
                                                      1, 0, seed))
    IN  IF question = <<>> THEN Answered("none", "missing", None, FALSE, <<>>, <<>>)
        ELSE Reply(parse_question(question))

\* mcp_server_http: tool ask_traffic_question; the pipeline runs inside a try
\* whose handler answers with the text of the failure
ask_traffic_question(question, table, env, ds_remote, sisi_remote, seed) ==
    LET Reply(parsed) ==
            LET Report(detect_result) ==
                    IF detect_result.exc # "none"
                    THEN Answered("none", "failed", PyStr(detect_result.exc), TRUE,
                                  detect_result.calls, detect_result.asked)
                    ELSE Answered("none", "analysis", detect_result.val, TRUE,
                                  detect_result.calls, detect_result.asked)
            IN  IF parsed.exc # "none"
                THEN Answered(parsed.exc, "none", None, FALSE, <<>>, <<>>)
                ELSE IF Unparsed(parsed)
                     THEN Answered("none", "unparsed", None, FALSE, <<>>, <<>>)
                ELSE Report(trigger_traffic_detect(table, parsed.run_date.v,
                                       Channel(parsed.pipe.v), env, ds_remote, sisi_remote,
                                       seed))
    IN  IF question = <<>> THEN Answered("none", "missing", None, FALSE, <<>>, <<>>)
        ELSE Reply(parse_question(question))

\* mcp_server_stdio: call_tool(name, arguments) for the two question tools,
\* which repeat the text of the two tools of mcp_server_http
call_tool(name, question, table, env, ds_remote, sisi_remote, seed) ==
    LET Reply(parsed) ==
            LET pipe_name == Channel(parsed.pipe.v)
                Told(report, calls) ==
                    IF report.exc # "none"
                    THEN Answered(report.exc, "none", None, TRUE, calls, <<>>)
                    ELSE Answered("none", report.kind, report.text, TRUE, calls, <<>>)
                Report(changepoints_result) ==
                    IF changepoints_result.exc # "none"
                    THEN Answered(changepoints_result.exc, "none", None, TRUE,
                                  changepoints_result.calls, <<>>)
                    ELSE Told(DetectionReport(changepoints_result.val, pipe_name),
                              changepoints_result.calls)
                Explain(detect_result) ==
                    IF detect_result.exc # "none"
                    THEN Answered("none", "failed", PyStr(detect_result.exc), TRUE,
                                  detect_result.calls, detect_result.asked)
                    ELSE Answered("none", "analysis", detect_result.val, TRUE,
                                  detect_result.calls, detect_result.asked)
            IN  IF parsed.exc # "none"
                THEN Answered(parsed.exc, "none", None, FALSE, <<>>, <<>>)
                ELSE IF Unparsed(parsed)
                     THEN Answered("none", "unparsed", None, FALSE, <<>>, <<>>)
                ELSE IF name = "detect_traffic_congestion"
                     THEN Report(pipe_detect_engine(table, parsed.run_date.v,
                                                           pipe_name, 1, 0, seed))
                ELSE Explain(trigger_traffic_detect(table, parsed.run_date.v, pipe_name,
                                        env, ds_remote, sisi_remote, seed))
    IN  IF question = <<>> THEN Answered("none", "missing", None, FALSE, <<>>, <<>>)
        ELSE Reply(parse_question(question))

(***************************************************************************)
(* The congestion test of plot_ship_congestion: the periods between        *)
(* consecutive change points whose mean lies above the mean of the window  *)
(* by more than a tenth.  The means are compared exactly: the quotients    *)
(* sum/len are cross-multiplied, and 1.1 is 11/10.                         *)
(***************************************************************************)
\* (variant for C14: the margin of a tenth is left out)
Congested_NoMargin(ship_counts, start_idx, end_idx) ==
    LET period == SubSeq(ship_counts, start_idx + 1, end_idx)
    IN  /\ Len(period) > 0
        /\ Sum(period) * Len(ship_counts) > Sum(ship_counts) * Len(period)

\* np.mean(ship_counts[start_idx:end_idx]) > np.mean(ship_counts) * 1.1
Congested(ship_counts, start_idx, end_idx) ==
    LET period == SubSeq(ship_counts, start_idx + 1, end_idx)
    IN  /\ Len(period) > 0
        /\ 10 * Sum(period) * Len(ship_counts) > 11 * Sum(ship_counts) * Len(period)

\* for i in range(len(changepoints) - 1): ... plt.axvspan(start, end - 1)
CongestionPeriods(ship_counts, changepoints) ==
    { <<changepoints[i], changepoints[i + 1]>> :
        i \in {k \in 1..(Len(changepoints) - 1) :
                  Congested(ship_counts, changepoints[k], changepoints[k + 1])} }

\* the change-point lists detect can return for a series of n observations:
\* increasing positions inside the series
ChangePointLists(n) == {SortedSeq(S) : S \in SUBSET (1..(n - 1))}

Counts == {0, 9, 10, 11}
CountSeries == UNION {[1..n -> Counts] : n \in 1..MaxLen}
ClassifyCalls ==
    { [op |-> "call", fn |-> "highlight", ship_counts |-> s, changepoints |-> c] :
        s \in CountSeries, c \in UNION {ChangePointLists(n) : n \in 1..MaxLen} }

InitClassify ==
    /\ det = ChangePointDetectorInit(engine_config)
    /\ lib = 0
    /\ ret = NoCall
    /\ first = NoCall
    /\ store = <<>>
    /\ pool = NoPool
    /\ run \in {c \in ClassifyCalls :
                  \A i \in 1..Len(c.changepoints) : c.changepoints[i] < Len(c.ship_counts)}

Highlight ==
    /\ run.op = "call" /\ run.fn = "highlight"
    /\ run' = [op |-> "highlight", ship_counts |-> run.ship_counts,
               changepoints |-> run.changepoints,
               spans |-> CongestionPeriods(run.ship_counts, run.changepoints)]
    /\ UNCHANGED <<det, lib, ret, first, store, pool>>

NextClassify == Highlight

SpecClassify == InitClassify /\ [][NextClassify]_vars

(***************************************************************************)
(* The explanation chain as a state machine: a call of analyze_congestion  *)
(* on the change-point table pipe_detect_engine builds from a window and   *)
(* the change points found in it (group.iloc[result["change_points"]]).    *)
(***************************************************************************)
Envs == { {"DEEPSEEK_API_KEY", "SISI_API_KEY"}, {"DEEPSEEK_API_KEY"}, {"SISI_API_KEY"} }

WindowRows(ship_counts) ==
    [i \in 1..Len(ship_counts) |->
        [pipe_name |-> "mandeb", date_id |-> 20231200 + i, ship_cnt |-> ship_counts[i]]]

InitChain ==
    /\ det = ChangePointDetectorInit(engine_config)
    /\ lib = 0
    /\ ret = NoCall
    /\ first = NoCall
    /\ store = <<>>
    /\ pool = NoPool
    /\ \E s \in UNION {[1..n -> ShipCounts] : n \in 1..MaxLen},
          c \in UNION {ChangePointLists(n) : n \in 1..MaxLen},
          e \in Envs, d \in Remotes(WebTexts), r \in Remotes(Texts) :
          /\ \A i \in 1..Len(c) : c[i] < Len(s)
          /\ run = [op |-> "call", fn |-> "analyze_congestion", window |-> WindowRows(s),
                    change_points |-> c, env |-> e, ds |-> d, sisi |-> r]

AnalyzeCongestion ==
    /\ run.op = "call" /\ run.fn = "analyze_congestion"
    /\ LET changepoints == Iloc(run.window, run.change_points)
           r == analyze_congestion("mandeb", changepoints, run.env, run.ds, run.sisi)
       IN  run' = [op |-> "analyze_congestion", call |-> run, changepoints |-> changepoints,
                   exc |-> r.exc, val |-> r.val, asked |-> r.asked]
    /\ UNCHANGED <<det, lib, ret, first, store, pool>>

NextChain == AnalyzeCongestion

SpecChain == InitChain /\ [][NextChain]_vars

(***************************************************************************)
(* The entry points as a state machine: a persisted table and one request  *)
(* to trigger_traffic_detect, run_app or a handler of a front end.         *)
(***************************************************************************)
Year2023 == <<"2", "0", "2", "3">>
QuestionHeads == {<<>>, ManDeHaiXia}
QuestionDates ==
    { <<>>,
      Year2023 \o <<"nian", "1", "2", "yue">>,
      Year2023 \o <<"nian", "1", "3", "yue">>,
      Year2023 \o <<"nian", "yue">>,
      Year2023 \o <<" ", "nian", " ", "2", " ", "yue">>,
      Year2023 \o <<"-", "1", "2">> }
QuestionGaps == {<<>>, <<" ">>}
QuestionNames == {<<>>, ManDeHaiXia, <<"su", "yi2", "shi4">>, <<"su">>}
QuestionTails == {<<>>, <<"shi", "fou", "fa", "sheng", "yi", "chang", "?">>}
Questions ==
    { h \o d \o g \o n \o t :
        h \in QuestionHeads, d \in QuestionDates, g \in QuestionGaps,
        n \in QuestionNames, t \in QuestionTails }

EntryTables == {t \in Tables : Len(t) <= 1}
EntryNets ==
    { [env |-> {"DEEPSEEK_API_KEY", "SISI_API_KEY"},
       ds |-> [kind |-> "json", body |-> OkBody(<<"w">>)],
       sisi |-> [kind |-> "json", body |-> OkBody(<<"s">>)]],
      [env |-> {"DEEPSEEK_API_KEY", "SISI_API_KEY"},
       ds |-> [kind |-> "timeout"],
       sisi |-> [kind |-> "json", body |-> OkBody(<<"s">>)]] }
Handlers ==
    { <<"detect_congestion", "">>, <<"ask_question", "">>,
      <<"detect_traffic_congestion", "">>, <<"ask_traffic_question", "">>,
      <<"call_tool", "detect_traffic_congestion">>, <<"call_tool", "ask_traffic_question">> }
EntryCalls ==
    { [op |-> "call", fn |-> h[1], name |-> h[2], question |-> q,
       run_date |-> <<2023, 12, 31>>, pipe_name |-> "mandeb", net |-> n] :
        h \in Handlers, q \in Questions, n \in EntryNets }
    \cup
    { [op |-> "call", fn |-> f, name |-> "", question |-> <<>>,
       run_date |-> d, pipe_name |-> p, net |-> n] :
        f \in {"trigger_traffic_detect", "run_app"}, d \in RunDates, p \in PipeInputs,
        n \in EntryNets }

InitEntry ==
    /\ det = ChangePointDetectorInit(engine_config)
    /\ lib = 0
    /\ ret = NoCall
    /\ first = NoCall
    /\ store \in EntryTables
    /\ pool = NoPool
    /\ run \in EntryCalls

Served(r) == run' = [op |-> "served", call |-> run, out |-> r]

TriggerTrafficDetect ==
    /\ run.op = "call" /\ run.fn = "trigger_traffic_detect"
    /\ Served(trigger_traffic_detect(store, run.run_date, run.pipe_name, run.net.env,
                                     run.net.ds, run.net.sisi, lib))
    /\ UNCHANGED <<det, lib, ret, first, store, pool>>

RunApp ==
    /\ run.op = "call" /\ run.fn = "run_app"
    /\ Served(run_app(store, run.run_date, run.pipe_name, run.net.env,
                      run.net.ds, run.net.sisi, lib))
    /\ UNCHANGED <<det, lib, ret, first, store, pool>>

DetectCongestion ==
    /\ run.op = "call" /\ run.fn = "detect_congestion"
    /\ Served(detect_congestion(run.question, store, lib))
    /\ UNCHANGED <<det, lib, ret, first, store, pool>>

AskQuestion ==
    /\ run.op = "call" /\ run.fn = "ask_question"
    /\ Served(ask_question(run.question, store, run.net.env, run.net.ds, run.net.sisi, lib))
    /\ UNCHANGED <<det, lib, ret, first, store, pool>>

DetectTrafficCongestion ==
    /\ run.op = "call" /\ run.fn = "detect_traffic_congestion"
    /\ Served(detect_traffic_congestion(run.question, store, lib))
    /\ UNCHANGED <<det, lib, ret, first, store, pool>>

AskTrafficQuestion ==
    /\ run.op = "call" /\ run.fn = "ask_traffic_question"
    /\ Served(ask_traffic_question(run.question, store, run.net.env, run.net.ds,
                                   run.net.sisi, lib))
    /\ UNCHANGED <<det, lib, ret, first, store, pool>>

CallTool ==
    /\ run.op = "call" /\ run.fn = "call_tool"
    /\ Served(call_tool(run.name, run.question, store, run.net.env, run.net.ds,
                        run.net.sisi, lib))
    /\ UNCHANGED <<det, lib, ret, first, store, pool>>

NextEntry ==
    \/ TriggerTrafficDetect
    \/ RunApp
    \/ DetectCongestion
    \/ AskQuestion
    \/ DetectTrafficCongestion
    \/ AskTrafficQuestion
    \/ CallTool

SpecEntry == InitEntry /\ [][NextEntry]_vars

(***************************************************************************)
(* Requests in worker threads (loop.run_in_executor(None, ...)).  A worker *)
(* runs one call of pipe_detect_engine, trigger_traffic_detect or          *)
(* plot_ship_congestion in two steps: it reads the table into the frame of *)
(* its call (config, detector, df are locals of the call), then works on   *)
(* what it read.  The steps of different workers interleave freely.        *)
(***************************************************************************)
MaxWorkers == 2    \* number of worker threads

Workers == 1..MaxWorkers

\* (variant for C19: config, detector and df are module-level names that every
\* call shares)
Frame_Shared(w) == 1

\* config = {...}; detector = ChangePointDetector(config); df = pd.read_sql(...):
\* names local to the call a worker runs
Frame(w) == w

PoolCalls ==
    { [fn |-> f, run_date |-> <<2023, 12, 31>>, pipe_name |-> p] :
        f \in {"pipe_detect_engine", "trigger_traffic_detect", "plot_ship_congestion"},
        p \in Pipes }

PoolNet == CHOOSE n \in EntryNets : n.ds.kind = "json"

\* pd.read_sql: the rows of the channel for pipe_detect_engine, every row for
\* plot_ship_congestion
ReadSql(call, table) ==
    IF call.fn = "plot_ship_congestion" THEN table ELSE OfPipe(table, call.pipe_name, 1)

\* the call from the rows read on; the front ends plot with month = 3, day = 0
Pipeline(call, df, seed) ==
    LET Whole(r) == Requested(r.exc, r.val, r.calls, <<>>)
    IN  IF call.fn = "pipe_detect_engine"
        THEN Whole(pipe_detect_engine(df, call.run_date, call.pipe_name, 1, 0, seed))
        ELSE IF call.fn = "plot_ship_congestion"
        THEN Whole(plot_ship_congestion(df, call.run_date, call.pipe_name, 3, 0, seed))
        ELSE trigger_traffic_detect(df, call.run_date, call.pipe_name, PoolNet.env,
                                    PoolNet.ds, PoolNet.sisi, seed)

InitPool ==
    /\ det = ChangePointDetectorInit(engine_config)
    /\ lib = 0
    /\ ret = NoCall
    /\ first = NoCall
    /\ store \in EntryTables
    /\ run = NoRun
    /\ \E calls \in [Workers -> PoolCalls] :
          pool = [reqs |-> [w \in Workers |->
                              [pc |-> "queued", call |-> calls[w], overlap |-> FALSE,
                               out |-> None]],
                  frames |-> [w \in Workers |-> <<>>]]

Load(w) ==
    /\ pool.reqs[w].pc = "queued"
    /\ pool' = [reqs |-> [pool.reqs EXCEPT
                            ![w].pc = "loaded",
                            ![w].overlap = \E v \in Workers : pool.reqs[v].pc = "loaded"],
                frames |-> [pool.frames EXCEPT
                            ![Frame(w)] = ReadSql(pool.reqs[w].call, store)]]
    /\ UNCHANGED <<det, lib, ret, first, store, run>>

Work(w) ==
    /\ pool.reqs[w].pc = "loaded"
    /\ pool' = [pool EXCEPT
                  !.reqs[w].pc = "done",
                  !.reqs[w].out = Pipeline(pool.reqs[w].call, pool.frames[Frame(w)], lib)]
    /\ UNCHANGED <<det, lib, ret, first, store, run>>

NextPool ==
    \/ \E w \in Workers : Load(w)
    \/ \E w \in Workers : Work(w)

SpecPool == InitPool /\ [][NextPool]_vars

(***************************************************************************)
(* resources/sisi/APIs/canal_traffic.py: the signed GET request of         *)
(* get_bci_metrics.  A dictionary is a function from its keys; the MD5     *)
(* digest is kept as the text it was taken of, so that two signatures are  *)
(* equal exactly when the signed texts are.  The remote side is either a   *)
(* transport failure (a requests.exceptions.RequestException raised by     *)
(* requests.get) or a response with a status code and a body.  A body that *)
(* is not JSON makes response.json() raise; requests from 2.27 on raises a *)
(* RequestException there, older releases a plain ValueError.              *)
(***************************************************************************)
PyBool(b) == [t |-> "bool", v |-> IF b THEN "True" ELSE "False"]
Truthy(x) == ~(x = None \/ x = PyStr("") \/ x = PyBool(FALSE))

APP_ID == "qiu"
SECRET_KEY == "kevqkjn6bi1ximve3ukc8gp3kkr9ez9y"

\* the key names that occur, in the order sorted() gives them
AsciiOrder ==
    <<"appId", "client", "csdbs", "endDay", "nonce", "startDay", "timestamp", "zbxxs">>

generate_signature(params_to_sign, secret_key) ==
    LET sorted_params ==
            SelectSeq([i \in 1..Len(AsciiOrder) |->
                          <<AsciiOrder[i], Get(params_to_sign, AsciiOrder[i], "")>>],
                      LAMBDA item : item[1] \in DOMAIN params_to_sign)
        string_sign_temp == Append(sorted_params, <<"key", secret_key>>)
    IN  [md5 |-> string_sign_temp]

\* (variant for C22: only server errors raise)
raise_for_status_ServerOnly(response) ==
    IF response.status_code >= 500 /\ response.status_code < 600 THEN "HTTPError" ELSE "none"

raise_for_status(response) ==
    IF response.status_code >= 400 /\ response.status_code < 600 THEN "HTTPError" ELSE "none"

RequestExceptions == {"HTTPError", "ConnectionError", "Timeout", "JSONDecodeError"}

BciFailure == [success |-> PyBool(FALSE), message |-> PyStr("qingqiu shibai")]

BciOutcome(exc, val, request) == [exc |-> exc, val |-> val, request |-> request]

get_bci_metrics(client, start_day, end_day, zbxxs, csdbs, timestamp, nonce, remote) ==
    LET required == [client |-> client, startDay |-> start_day, endDay |-> end_day]
        with_zbxxs == IF Truthy(zbxxs) THEN [zbxxs |-> zbxxs.v] ELSE <<>>
        with_csdbs == IF Truthy(csdbs) THEN [csdbs |-> csdbs.v] ELSE <<>>
        query_params == required @@ with_zbxxs @@ with_csdbs
        params_to_sign ==
            [appId |-> APP_ID, client |-> client, endDay |-> end_day,
             nonce |-> nonce, startDay |-> start_day, timestamp |-> timestamp]
        headers ==
            [appId |-> APP_ID, timestamp |-> timestamp, nonce |-> nonce,
             sign |-> generate_signature(params_to_sign, SECRET_KEY),
             ContentType |-> "application/json;charset=UTF-8"]
        request == [headers |-> headers, params |-> query_params]
        raised ==
            IF remote.kind # "response" THEN remote.kind
            ELSE IF raise_for_status(remote) # "none" THEN raise_for_status(remote)
            ELSE IF remote.body.json THEN "none"
            ELSE IF remote.legacy THEN "ValueError" ELSE "JSONDecodeError"
    IN  IF raised = "none" THEN BciOutcome("none", remote.body.doc, request)
        ELSE IF raised \in RequestExceptions THEN BciOutcome("none", BciFailure, request)
        ELSE BciOutcome(raised, <<>>, request)

Clients == {"qiu", "clientA"}
Days == {"2026-01-01", "2026-01-05"}
Optionals(s) == {None, PyStr(""), PyStr(s)}
Statuses == {200, 204, 304, 404, 500}
BciBodies ==
    {[json |-> TRUE, doc |-> [success |-> PyBool(TRUE), data |-> PyStr("[]")]],
     [json |-> TRUE, doc |-> [error |-> PyStr("srv")]],
     [json |-> FALSE, doc |-> [text |-> PyStr("<html>")]]}
BciRemotes ==
    {[kind |-> k, status_code |-> 0, body |-> [json |-> FALSE, doc |-> [text |-> PyStr("")]],
      legacy |-> FALSE] : k \in {"ConnectionError", "Timeout"}}
    \cup {[kind |-> "response", status_code |-> s, body |-> b, legacy |-> l] :
            s \in Statuses, b \in BciBodies, l \in BOOLEAN}

InitBci ==
    /\ det = ChangePointDetectorInit(engine_config)
    /\ lib = 0
    /\ ret = NoCall
    /\ first = NoCall
    /\ store = <<>>
    /\ pool = NoPool
    /\ \E c \in Clients, s \in Days, e \in Days,
          z \in Optionals("101-0003,101-0004"), d \in Optionals("CID"),
          n \in {"1000000000", "9999999999"}, r \in BciRemotes :
          run = [op |-> "call", fn |-> "get_bci_metrics", client |-> c, start_day |-> s,
                 end_day |-> e, zbxxs |-> z, csdbs |-> d, timestamp |-> "1656633600",
                 nonce |-> n, remote |-> r]

GetBciMetrics ==
    /\ run.op = "call" /\ run.fn = "get_bci_metrics"
    /\ LET r == get_bci_metrics(run.client, run.start_day, run.end_day, run.zbxxs,
                                run.csdbs, run.timestamp, run.nonce, run.remote)
       IN  run' = [op |-> "get_bci_metrics", call |-> run, exc |-> r.exc, val |-> r.val,
                   request |-> r.request]
    /\ UNCHANGED <<det, lib, ret, first, store, pool>>

NextBci == GetBciMetrics

SpecBci == InitBci /\ [][NextBci]_vars

(***************************************************************************)
(* resources/tools.py: remove_think_tag on its own, for texts long enough  *)
(* to hold a block inside the halves of a tag.                             *)
(***************************************************************************)
MaxPieces == 8     \* longest text handed to remove_think_tag, in pieces

Pieces == {"<thi", "</thi", "nk>", "\n"}

InitDetag ==
    /\ det = ChangePointDetectorInit(engine_config)
    /\ lib = 0
    /\ ret = NoCall
    /\ first = NoCall
    /\ store = <<>>
    /\ pool = NoPool
    /\ \E content \in UNION {[1..n -> Pieces] : n \in 0..MaxPieces} :
          run = [op |-> "call", fn |-> "remove_think_tag", content |-> content]

RemoveThinkTag ==
    /\ run.op = "call" /\ run.fn = "remove_think_tag"
    /\ run' = [op |-> "remove_think_tag", content |-> run.content,
               val |-> remove_think_tag(run.content)]
    /\ UNCHANGED <<det, lib, ret, first, store, pool>>

NextDetag == RemoveThinkTag

SpecDetag == InitDetag /\ [][NextDetag]_vars

(***************************************************************************)
(* The arguments of the library calls made by _detect_bic and _detect_pelt:*)
(* a detector constructed with one of the two methods and a penalty that   *)
(* is 'default' or a whole number, then detect calls.                      *)
(***************************************************************************)
MaxPenalty == 11   \* largest penalty configured

InitSearch ==
    /\ \E m \in {"bic", "pelt"}, model \in {"l1", "l2"}, min_size \in {2, 3},
          penalty \in {PyStr("default")} \cup {PyInt(p) : p \in -1..MaxPenalty},
          n_bkps \in {1, 3} :
          det = ChangePointDetectorInit(
                    [method |-> PyStr(m), model |-> PyStr(model), min_size |-> PyInt(min_size),
                     penalty |-> penalty, n_bkps |-> PyInt(n_bkps)])
    /\ lib \in 0..(LibSeeds - 1)
    /\ ret = NoCall
    /\ first = NoCall
    /\ store = <<>>
    /\ run = NoRun
    /\ pool = NoPool

NextSearch == \E value \in Series : Detect(value)

SpecSearch == InitSearch /\ [][NextSearch]_vars

(***************************************************************************)
(* The asynchronous front ends (dify_api_server, mcp_server_http): one     *)
(* event-loop thread runs the handlers, a step at a time, from one await   *)
(* to the next; loop.run_in_executor(None, ...) hands the pipeline to a    *)
(* thread of the default executor, which takes its work in order of        *)
(* submission.  A request is absent, arrived, submitted (its pipeline      *)
(* waits for a thread), running, finished (the pipeline has returned or    *)
(* raised and the handler waits for the loop) or answered.  holder is the  *)
(* request whose handler keeps the event-loop thread between steps, 0 when *)
(* the thread is free.  Request 1 asks for a pipeline; it is the one that  *)
(* may stay blocked.                                                       *)
(***************************************************************************)
MaxRequests == 3   \* number of requests sent to the front end

Requests == 1..MaxRequests
Paths == {"/health", "/api/detect_congestion", "/api/ask_question"}

\* (variant for C28: the handler calls the pipeline itself, on the event loop)
run_in_executor_OnLoop(srv, r) ==
    [srv EXCEPT !.reqs[r].pc = "running", !.holder = r]

\* await loop.run_in_executor(None, pipe_detect_engine | trigger_traffic_detect, ...)
run_in_executor(srv, r) ==
    [srv EXCEPT !.reqs[r].pc = "submitted", !.queue = Append(@, r)]

OnThreads(srv) == {r \in Requests : srv.reqs[r].pc = "running" /\ srv.holder # r}

InitServe ==
    /\ det = ChangePointDetectorInit(engine_config)
    /\ lib = 0
    /\ ret = NoCall
    /\ first = NoCall
    /\ store = <<>>
    /\ pool = NoPool
    /\ \E paths \in [Requests -> Paths] :
          /\ paths[1] # "/health"
          /\ run = [op |-> "serve",
                    reqs |-> [r \in Requests |-> [path |-> paths[r], pc |-> "absent"]],
                    queue |-> <<>>, holder |-> 0]

\* a client sends request r
Arrive(r) ==
    /\ run.op = "serve" /\ run.reqs[r].pc = "absent"
    /\ run' = [run EXCEPT !.reqs[r].pc = "arrived"]
    /\ UNCHANGED <<det, lib, ret, first, store, pool>>

\* the loop runs the handler of r up to its return (health_check) or its await
Handle(r) ==
    /\ run.op = "serve" /\ run.reqs[r].pc = "arrived" /\ run.holder = 0
    /\ run' = IF run.reqs[r].path = "/health"
              THEN [run EXCEPT !.reqs[r].pc = "answered"]
              ELSE run_in_executor(run, r)
    /\ UNCHANGED <<det, lib, ret, first, store, pool>>

\* a free thread of the executor takes the pipeline submitted first
Take ==
    /\ run.op = "serve" /\ run.queue # <<>>
    /\ Cardinality(OnThreads(run)) < MaxWorkers
    /\ run' = [run EXCEPT !.reqs[Head(run.queue)].pc = "running", !.queue = Tail(@)]
    /\ UNCHANGED <<det, lib, ret, first, store, pool>>

\* the pipeline of r returns or raises
Complete(r) ==
    /\ run.op = "serve" /\ run.reqs[r].pc = "running"
    /\ run' = [run EXCEPT !.reqs[r].pc = "finished",
                          !.holder = IF @ = r THEN 0 ELSE @]
    /\ UNCHANGED <<det, lib, ret, first, store, pool>>

\* the loop resumes the handler of r behind its await; it builds the answer
Resume(r) ==
    /\ run.op = "serve" /\ run.reqs[r].pc = "finished" /\ run.holder = 0
    /\ run' = [run EXCEPT !.reqs[r].pc = "answered"]
    /\ UNCHANGED <<det, lib, ret, first, store, pool>>

NextServe ==
    \/ \E r \in Requests : Arrive(r)
    \/ \E r \in Requests : Handle(r)
    \/ Take
    \/ \E r \in Requests : Complete(r)
    \/ \E r \in Requests : Resume(r)

SpecServe == InitServe /\ [][NextServe]_vars

\* The loop goes on running ready handlers, the executor goes on handing work
\* to free threads, and every pipeline but that of request 1 comes to an end.
\* Nothing is assumed of the pipeline of request 1: it may stay blocked.
SpecServeFair ==
    /\ SpecServe
    /\ \A r \in Requests : WF_vars(Handle(r)) /\ WF_vars(Resume(r))
    /\ WF_vars(Take)
    /\ \A r \in Requests \ {1} : WF_vars(Complete(r))

(***************************************************************************)
(* The answer of the detection front ends as a state machine: the window   *)
(* of a channel and the change points detect returns for it, then the      *)
(* table pipe_detect_engine builds from them and the answer the handler    *)
(* gives for that table.                                                   *)
(***************************************************************************)
InitReport ==
    /\ det = ChangePointDetectorInit(engine_config)
    /\ lib = 0
    /\ ret = NoCall
    /\ first = NoCall
    /\ store = <<>>
    /\ pool = NoPool
    /\ \E s \in UNION {[1..n -> ShipCounts] : n \in 0..MaxLen},
          c \in UNION {ChangePointLists(n) : n \in 0..MaxLen},
          pipe_name \in Pipes :
          /\ \A i \in 1..Len(c) : c[i] < Len(s)
          /\ run = [op |-> "call", fn |-> "report", pipe_name |-> pipe_name,
                    window |-> [i \in 1..Len(s) |->
                                   [WindowRows(s)[i] EXCEPT !.pipe_name = pipe_name]],
                    change_points |-> c]

ReportDetection ==
    /\ run.op = "call" /\ run.fn = "report"
    /\ LET changepoints_result ==
               ChangepointsResult(run.window, run.pipe_name, run.change_points)
       IN  run' = [op |-> "report", call |-> run,
                   changepoints_result |-> changepoints_result,
                   reply |-> DetectionReport(changepoints_result, run.pipe_name)]
    /\ UNCHANGED <<det, lib, ret, first, store, pool>>

NextReport == ReportDetection

SpecReport == InitReport /\ [][NextReport]_vars

(***************************************************************************)
(* The entry points on a table that holds one window of a channel: up to   *)
(* MaxLen days of December 2023, so that a window can be as long as the    *)
(* detector's min_size.                                                    *)
(***************************************************************************)
InitWindow ==
    /\ det = ChangePointDetectorInit(engine_config)
    /\ lib = 0
    /\ ret = NoCall
    /\ first = NoCall
    /\ store \in {WindowRows(s) : s \in Series}
    /\ run = NoRun
    /\ pool = NoPool

SpecWindow == InitWindow /\ [][NextLoad]_vars

(***************************************************************************)
(* Properties of detect.                                                   *)
(***************************************************************************)
IsDetect == ret.op = "detect"
Structured(status) == ret.exc = "none" /\ ret.val.status = status
MethodKnown == det.method.t = "str" /\ det.method.v \in valid_methods

\* C1: a series shorter than min_size yields status 'error', no change points,
\* the message 'Time series too short', and no call into the segmentation library,
\* whatever the configuration.
C1_TooShortIsError ==
    (IsDetect /\ Len(ret.arg) < det.min_size.v) =>
        /\ Structured("error")
        /\ ret.val.change_points = <<>>
        /\ ret.val.message.fmt = "Time series too short"
        /\ ret.rpt = <<>>

C1_Witness ==
    /\ IsDetect /\ Len(ret.arg) = 2 /\ det.min_size.v = 3
    /\ det.method = PyStr("pelt") /\ ret.val.status = "error"

\* C2 as stated: an unknown method yields 'Unknown method' for a series of any
\* length, also one shorter than min_size.
C2_Original ==
    (IsDetect /\ ~MethodKnown) =>
        /\ Structured("error")
        /\ ret.val.change_points = <<>>
        /\ ret.val.message.fmt = "Unknown method: {}"

\* C2 amended: an unknown method yields status 'error' and no change points for
\* every series; the message is 'Unknown method' when the series has at least
\* min_size points and 'Time series too short' when it is shorter.
C2_UnknownMethodIsError ==
    (IsDetect /\ ~MethodKnown) =>
        /\ Structured("error")
        /\ ret.val.change_points = <<>>
        /\ ret.rpt = <<>>
        /\ ret.val.message.fmt =
              IF Len(ret.arg) >= det.min_size.v THEN "Unknown method: {}"
              ELSE "Time series too short"
        /\ Len(ret.arg) >= det.min_size.v => ret.val.message.arg = det.method

C2_Witness ==
    /\ IsDetect /\ det.method = PyStr("invalid_method")
    /\ Len(ret.arg) >= det.min_size.v
    /\ ret.exc = "none" /\ ret.val.message.fmt = "Unknown method: {}"

\* C3: when a recognized method's search returns, the change points are strictly
\* increasing, all below the series length n, and never contain n itself.
C3_BoundarySet ==
    (IsDetect /\ ret.exc = "none" /\ ret.val.status = "success") =>
        LET cps == ret.val.change_points
            n == Len(ret.arg)
        IN  /\ MethodKnown
            /\ \A i \in 1..Len(cps) : cps[i] < n /\ cps[i] # n
            /\ \A i, j \in 1..Len(cps) : i < j => cps[i] < cps[j]

C3_Witness ==
    /\ IsDetect /\ ret.exc = "none" /\ ret.val.status = "success"
    /\ Len(ret.arg) = MaxLen /\ Len(ret.val.change_points) = 2

(***************************************************************************)
(* Properties of the mutators.                                             *)
(***************************************************************************)
Unset(r) == r.op = "init"
ParamNames == {"method", "model", "min_size", "penalty", "n_bkps", "jump", "width"}
ValidlyConfigured(d) ==
    /\ d.method.t = "str" /\ d.method.v \in valid_methods
    /\ d.model.t = "str" /\ d.model.v \in valid_models

\* C4: set_method / set_model with a value outside the enumerated set raise and
\* leave the detector unchanged; with a value inside the set they succeed and the
\* detector's method / model is that value afterwards, nothing else changed.
C4_SettersValidate ==
    [][ /\ ret'.op = "set_method" =>
              IF ret'.arg \in {"bic", "pelt", "binseg", "bottomup", "window"}
              THEN ret'.exc = "none" /\ det' = [det EXCEPT !.method = PyStr(ret'.arg)]
              ELSE ret'.exc = "ValueError" /\ det' = det
        /\ ret'.op = "set_model" =>
              IF ret'.arg \in {"l1", "l2", "rbf", "linear", "normal", "ar"}
              THEN ret'.exc = "none" /\ det' = [det EXCEPT !.model = PyStr(ret'.arg)]
              ELSE ret'.exc = "ValueError" /\ det' = det ]_vars

C4_Witness ==
    /\ ret.op = "set_method" /\ ret.arg = "invalid_method" /\ ret.exc = "ValueError"
    /\ det.method = PyStr("window") /\ det.model = PyStr("ar")

\* C5: set_params rejects a method / model outside the enumerated sets, so a
\* validly configured detector stays validly configured under every mutator call.
C5_Original ==
    [][(ValidlyConfigured(det) /\ ret'.op = "set_params") =>
            LET params == ret'.arg
                bad == \/ "method" \in DOMAIN params /\ params.method.v \notin valid_methods
                       \/ "model" \in DOMAIN params /\ params.model.v \notin valid_models
            IN  /\ ValidlyConfigured(det')
                /\ bad => (ret'.exc = "ValueError" /\ det' = det) ]_vars

\* C6: set_params assigns every keyword that names a detector parameter, ignores
\* every keyword that names no attribute, raises nothing, creates no attribute
\* and leaves every other attribute as it was.
C6_SetParamsFrame ==
    [][ret'.op = "set_params" =>
            /\ ret'.exc = "none"
            /\ DOMAIN det' = DOMAIN det
            /\ \A a \in DOMAIN det' :
                  det'[a] = IF a \in DOMAIN ret'.arg THEN ret'.arg[a] ELSE det[a]
            /\ \A k \in DOMAIN ret'.arg :
                  \/ k \in ParamNames /\ det'[k] = ret'.arg[k]
                  \/ k \notin DOMAIN det /\ k \notin DOMAIN det' ]_vars

C6_Witness ==
    /\ ret.op = "set_params" /\ ret.exc = "none"
    /\ "non_existent_param" \in DOMAIN ret.arg /\ "penalty" \in DOMAIN ret.arg
    /\ det.penalty = PyInt(0) /\ det.n_bkps = PyInt(1) /\ det.method = PyStr("bic")

\* C7: a configuration whose method or model is outside the enumerated sets is
\* rejected at construction, and detect reports an unsupported model as a
\* structured error before the segmentation library is called with it.
C7_Original ==
    /\ Unset(ret) => ValidlyConfigured(det)
    /\ (IsDetect /\ det.model.v \notin valid_models) =>
            Structured("error") /\ ret.rpt = <<>>

\* C8: detect never raises; every failure of the detection stage is a structured
\* result with status 'error' and no change points.
C8_Original ==
    IsDetect =>
        /\ ret.exc = "none"
        /\ ret.val.status = "success" => ret.rpt = <<"new", "fit", "predict">>

\* C9: detect leaves the detector's configuration and the caller's series as they
\* were, and a detect call on the series of the first call returns what the first
\* call returned, whatever detect calls were made in between.
C9_DetectIsPure ==
    /\ [][ret'.op = "detect" => (det' = det /\ ret'.after = ret'.arg)]_vars
    /\ [](first.op # "init" /\ ret.arg = first.call.arg
            => (ret.exc = first.call.exc /\ ret.rpt = first.call.rpt
                /\ ret.val = first.call.val))

C9_Witness ==
    /\ first.op # "init" /\ first.between /\ ret.arg = first.call.arg
    /\ det.method = PyStr("window") /\ ret.exc = "none"
    /\ ret.val.status = "success" /\ Len(ret.val.change_points) > 0

(***************************************************************************)
(* Properties of the loaders.                                              *)
(***************************************************************************)
\* C10: every observation handed to the detector is a row of the requested
\* channel whose date key lies between (end date - lookback) and the end date,
\* both ends included; the list handed over holds the ship counts of those rows.
C10_WindowBounds ==
    run.op # "init" =>
        \A c \in 1..Len(run.calls) :
            LET rows == run.calls[c].rows
                lo == DateId(MinusMonths(MinusDays(run.run_date, run.day), run.month))
                hi == DateId(run.run_date)
            IN  /\ \A i \in 1..Len(rows) :
                      /\ rows[i].pipe_name = run.pipe_name
                      /\ lo <= rows[i].date_id /\ rows[i].date_id <= hi
                      /\ \E j \in 1..Len(store) : store[j] = rows[i]
                /\ run.calls[c].args[1] = [i \in 1..Len(rows) |-> rows[i].ship_cnt]

C10_Witness ==
    /\ run.op = "pipe_detect_engine" /\ run.month = 1 /\ Len(run.calls) = 1
    /\ Len(store) = 2 /\ Len(run.calls[1].rows) = 1
    /\ run.calls[1].rows[1].date_id = 20231130
    /\ store[1].pipe_name = run.pipe_name /\ store[1].date_id = 20240101

\* C11: the series handed to the detector is in ascending date order whatever
\* the row order of the persisted table, so that change point i is the i-th
\* earliest day of the window.
C11_Original ==
    run.op # "init" =>
        \A c \in 1..Len(run.calls) :
            LET rows == run.calls[c].rows
            IN  \A i, j \in 1..Len(rows) : i < j => rows[i].date_id <= rows[j].date_id

\* C12: the loader raises its no-data error exactly when the channel has no
\* persisted row at all; with rows of the channel but none inside the window it
\* returns an empty result and raises nothing.
C12_Original ==
    (run.op # "init" /\ ValidDate(run.run_date)) =>
        LET of_pipe == OfPipe(store, run.pipe_name, 1)
            lo == DateId(StartDate(run.run_date, run.month, run.day))
            in_window == Filter(of_pipe, lo, DateId(run.run_date), 1)
        IN  /\ run.exc = "ValueError" <=> of_pipe = <<>>
            /\ (of_pipe # <<>> /\ in_window = <<>>) => (run.exc = "none" /\ run.val = <<>>)

\* C13: when the loader returns an empty result (the channel has rows, none
\* of them inside the window), every caller of the loader (trigger_traffic_detect,
\* run_app and the detect and ask handlers of the front ends) finishes without
\* an exception and without a call to a language service.
C13_Original ==
    run.op = "served" =>
        LET call == run.call
            direct == call.fn \in {"trigger_traffic_detect", "run_app"}
            parsed == parse_question(call.question)
            loaded == IF direct
                      THEN pipe_detect_engine(store, call.run_date, call.pipe_name, 1, 0, lib)
                      ELSE pipe_detect_engine(store, parsed.run_date.v, Channel(parsed.pipe.v),
                                              1, 0, lib)
        IN  (/\ direct \/ (parsed.exc = "none" /\ ~Unparsed(parsed))
             /\ loaded.exc = "none"
             /\ loaded.val = <<>>)
                => (run.out.exc = "none" /\ run.out.asked = <<>>)

\* C14: the congestion test flags the period between two consecutive change
\* points exactly when the mean of the observations inside it is greater than
\* 1.1 times the mean of the whole window; in a series of equal counts no
\* period is flagged, whatever the change points.
C14_FlagsMeanAboveMargin ==
    run.op = "highlight" =>
        LET s == run.ship_counts
            cp == run.changepoints
        IN  /\ \A i \in 1..(Len(cp) - 1) :
                    (<<cp[i], cp[i + 1]>> \in run.spans)
                        <=> (10 * Sum(SubSeq(s, cp[i] + 1, cp[i + 1])) * Len(s)
                                > 11 * Sum(s) * (cp[i + 1] - cp[i]))
            /\ \A span \in run.spans :
                    \E i \in 1..(Len(cp) - 1) : span = <<cp[i], cp[i + 1]>>
            /\ (\A i, j \in 1..Len(s) : s[i] = s[j]) => run.spans = {}

C14_Witness ==
    /\ run.op = "highlight"
    /\ run.ship_counts = <<9, 11, 9>>
    /\ run.changepoints = <<1, 2>>
    /\ run.spans = {<<1, 2>>}

\* C15: the two language services are called for a request only if the
\* congestion test has flagged a period between detected change points of the
\* window; a window none of whose periods has a mean above 1.1 times the mean
\* of the window never reaches the chain.
C15_Original ==
    (run.op = "analyze_congestion" /\ run.asked # <<>>) =>
        LET ship_counts == [i \in 1..Len(run.call.window) |-> run.call.window[i].ship_cnt]
            cp == run.call.change_points
        IN  \E i \in 1..(Len(cp) - 1) : Congested(ship_counts, cp[i], cp[i + 1])

\* C16: for one event, when both services answer with a first choice that
\* carries a message content, the chain asks the web-search service once and
\* then the rephrase service once; the question put to the rephrase service is
\* the content of the web-search answer, unchanged, and the text returned is
\* the content of the rephrase answer without its think blocks and outer
\* blanks: it is the same whatever the web-search text was.
C16_SearchThenRephrase ==
    (/\ run.op = "analyze_congestion"
     /\ run.changepoints # <<>>
     /\ {"DEEPSEEK_API_KEY", "SISI_API_KEY"} \subseteq run.call.env
     /\ \E w \in WebTexts : run.call.ds = [kind |-> "json", body |-> OkBody(w)]
     /\ \E t \in Texts : run.call.sisi = [kind |-> "json", body |-> OkBody(t)])
        => LET web_text == run.call.ds.body.choices[1].message.content
               summary == run.call.sisi.body.choices[1].message.content
               last == run.changepoints[Len(run.changepoints)]
           IN  /\ run.exc = "none"
               /\ Len(run.asked) = 2
               /\ run.asked[1].service = "deepseek"
               /\ run.asked[1].question.date_id = last.date_id
               /\ run.asked[2] = [service |-> "sisi", question |-> web_text]
               /\ run.val = Strip(ReSubThink(summary))

C16_Witness ==
    /\ run.op = "analyze_congestion"
    /\ run.exc = "none"
    /\ Len(run.asked) = 2
    /\ run.asked[2].question = OpenTag \o <<"w">> \o CloseTag
    /\ run.call.sisi.body = OkBody(OpenTag \o CloseTag)
    /\ run.val = <<>>

\* C17: when a step of the chain fails (the call times out or meets an HTTP
\* error, or the answer has no choices[0].message.content), the chain ends in
\* an exception and returns no text; no service is asked twice, and the
\* rephrase service is not asked after a failed web-search step.
C17_FailureAborts ==
    (/\ run.op = "analyze_congestion"
     /\ run.changepoints # <<>>
     /\ {"DEEPSEEK_API_KEY", "SISI_API_KEY"} \subseteq run.call.env
     /\ \/ ~\E w \in WebTexts : run.call.ds = [kind |-> "json", body |-> OkBody(w)]
        \/ ~\E t \in Texts : run.call.sisi = [kind |-> "json", body |-> OkBody(t)])
        => /\ run.exc \in {"KeyError", "IndexError"}
           /\ run.val = None
           /\ \A i, j \in 1..Len(run.asked) :
                  run.asked[i].service = run.asked[j].service => i = j
           /\ (~\E w \in WebTexts : run.call.ds = [kind |-> "json", body |-> OkBody(w)])
                  => \A i \in 1..Len(run.asked) : run.asked[i].service # "sisi"

C17_Witness ==
    /\ run.op = "analyze_congestion"
    /\ run.call.ds = [kind |-> "json", body |-> OkBody(<<"w">>)]
    /\ run.call.sisi = [kind |-> "timeout"]
    /\ run.exc = "KeyError"
    /\ Len(run.asked) = 2

\* C18: when the table of change points handed to analyze_congestion is
\* empty, no language service is asked and no text is returned.
C18_EmptyTableAsksNothing ==
    (run.op = "analyze_congestion" /\ run.changepoints = <<>>)
        => (run.asked = <<>> /\ run.val = None /\ run.exc = "IndexError")

C18_Witness ==
    /\ run.op = "analyze_congestion"
    /\ run.changepoints = <<>>
    /\ run.call.env = {"DEEPSEEK_API_KEY", "SISI_API_KEY"}
    /\ run.call.ds = [kind |-> "json", body |-> OkBody(<<"w">>)]
    /\ run.call.sisi = [kind |-> "json", body |-> OkBody(<<"s">>)]
    /\ run.asked = <<>>

C20_Original ==
    (run.op = "served" /\ run.call.fn \notin {"trigger_traffic_detect", "run_app"}) =>
        LET ym_match == SearchYearMonth(run.call.question)
            parsed == parse_question(run.call.question)
            unusable == \/ ~ym_match.ok
                        \/ ym_match.month \notin 1..12
                        \/ parsed.exc # "none"
                        \/ Unparsed(parsed)
        IN  unusable => /\ run.out.exc = "none"
                        /\ run.out.reply.kind \in {"unparsed", "missing"}
                        /\ ~run.out.loaded
                        /\ run.out.calls = <<>>
                        /\ run.out.asked = <<>>

\* C21: with a method that takes a target breakpoint count (binseg, bottomup,
\* window, and bic when the penalty is not a number), a detection that
\* succeeds returns at most n_bkps change points.
C21_AtMostNBkps ==
    (/\ IsDetect /\ Structured("success")
     /\ \/ det.method.v \in {"binseg", "bottomup", "window"}
        \/ det.method.v = "bic" /\ det.penalty.t # "int")
        => Len(ret.val.change_points) <= det.n_bkps.v

C21_Witness ==
    /\ IsDetect /\ Structured("success")
    /\ det.method = PyStr("window")
    /\ det.n_bkps = PyInt(1)
    /\ Len(ret.arg) = 3
    /\ Len(ret.val.change_points) = 1

(***************************************************************************)
(* Properties of get_bci_metrics.                                          *)
(***************************************************************************)
IsBci == run.op = "get_bci_metrics"
SignedNames == {"appId", "client", "endDay", "nonce", "startDay", "timestamp"}

\* C22: get_bci_metrics returns the JSON body of a 2xx response unchanged; for
\* an HTTP error status or a transport failure it returns a dictionary with
\* success = False and raises nothing; zbxxs and csdbs are query parameters only
\* when they were given, and the signed text holds exactly appId, client, endDay,
\* nonce, startDay and timestamp (closed by the secret key).
C22_BodyOrFailure ==
    IsBci =>
        LET remote == run.call.remote
            signed == run.request.headers.sign.md5
        IN  /\ (remote.kind = "response" /\ remote.status_code \in 200..299 /\ remote.body.json)
                  => (run.exc = "none" /\ run.val = remote.body.doc)
            /\ (remote.kind # "response" \/ remote.status_code \in 400..599)
                  => (run.exc = "none" /\ "success" \in DOMAIN run.val
                      /\ run.val.success = PyBool(FALSE))
            /\ "zbxxs" \in DOMAIN run.request.params
                  => (run.call.zbxxs # None /\ run.request.params.zbxxs = run.call.zbxxs.v)
            /\ "csdbs" \in DOMAIN run.request.params
                  => (run.call.csdbs # None /\ run.request.params.csdbs = run.call.csdbs.v)
            /\ {signed[i][1] : i \in 1..Len(signed) - 1} = SignedNames
            /\ signed[Len(signed)][1] = "key"

C22_Witness ==
    /\ IsBci /\ run.call.remote.kind = "response" /\ run.call.remote.status_code = 404
    /\ run.call.remote.body.json /\ run.call.zbxxs = PyStr("101-0003,101-0004")
    /\ run.call.csdbs = None /\ run.val = BciFailure
    /\ DOMAIN run.request.params = {"client", "startDay", "endDay", "zbxxs"}

\* C23 as stated: with at least one change point every region is classified:
\* the periods between consecutive change points and also the region from the
\* last change point to the end of the window, so a last region whose mean lies
\* above 1.1 times the mean of the window is flagged.
C23_Original ==
    (run.op = "highlight" /\ run.changepoints # <<>>) =>
        LET s == run.ship_counts
            last == run.changepoints[Len(run.changepoints)]
        IN  Congested(s, last, Len(s)) => <<last, Len(s)>> \in run.spans

\* C24: for a change-point table of k >= 1 rows only the last row is explained:
\* whatever k is, the web-search service is asked at most once and the rephrase
\* service at most once, the web-search question carries the date_id and the
\* pipe_name of the last row, and a call that returns has asked each service
\* exactly once and returns the rephrase answer for that row, without its think
\* blocks and outer blanks.
C24_OnlyLastRow ==
    (run.op = "analyze_congestion" /\ Len(run.changepoints) >= 1) =>
        LET last == run.changepoints[Len(run.changepoints)]
            services == [i \in 1..Len(run.asked) |-> run.asked[i].service]
        IN  /\ services \in {<<>>, <<"deepseek">>, <<"deepseek", "sisi">>}
            /\ run.asked # <<>> =>
                   run.asked[1].question = WeatherNewsQuestion(last.date_id, last.pipe_name)
            /\ run.exc = "none" =>
                   /\ services = <<"deepseek", "sisi">>
                   /\ run.val = remove_think_tag(Content(search_and_ask(run.call.sisi)).val)

C24_Witness ==
    /\ run.op = "analyze_congestion" /\ run.exc = "none"
    /\ Len(run.changepoints) = 2
    /\ run.changepoints[1].date_id # run.changepoints[2].date_id
    /\ Len(run.asked) = 2
    /\ run.asked[1].question.date_id = run.changepoints[2].date_id
    /\ run.val = <<"s">>

\* C25 as stated: the text remove_think_tag returns holds no think block, that
\* is no opening tag with a closing tag somewhere behind it, whatever the text
\* was, also when a block ran over several lines or stood between the halves
\* of a tag.
C25_Original ==
    run.op = "remove_think_tag" =>
        ~\E i \in 1..Len(run.val) :
            /\ TagAt(OpenTag, run.val, i)
            /\ \E j \in (i + 2)..Len(run.val) : TagAt(CloseTag, run.val, j)

(***************************************************************************)
(* Properties of the arguments handed to the segmentation library.         *)
(***************************************************************************)
ReachedSearch == IsDetect /\ ~TooShort(det, ret.arg) /\ CostKnown(det.model)

\* round(a / b) of Python for integers a and b # 0: the nearest integer, the
\* even one of the two when a / b lies halfway
PyRound(a, b) ==
    LET n == IF b > 0 THEN a ELSE -a
        d == IF b > 0 THEN b ELSE -b
        q == n \div d
        r == n % d
    IN  IF 2 * r < d THEN q
        ELSE IF 2 * r > d THEN q + 1
        ELSE IF q % 2 = 0 THEN q ELSE q + 1

\* C26 as stated: with method 'bic' and a numeric penalty p the breakpoint count
\* handed to the search is round(10/p) clamped into [1, 10], an integer in 1..10
\* for every numeric p; with the penalty 'default' it is the configured n_bkps.
C26_Original ==
    (ReachedSearch /\ det.method = PyStr("bic")) =>
        LET predict == ret.args.predict
        IN  IF det.penalty.t = "int"
            THEN /\ predict.kw = "n_bkps" /\ predict.v.t = "int" /\ predict.v.v \in 1..10
                 /\ det.penalty.v # 0 =>
                        predict.v.v = Max(1, Min(10, PyRound(10, det.penalty.v)))
            ELSE predict = [kw |-> "n_bkps", v |-> det.n_bkps]

\* C27: with method 'pelt' the search is created with the configured model and
\* min_size and asked with pen = 3 when the penalty is 'default' and with the
\* configured penalty itself otherwise; no breakpoint count is handed to it.
C27_PeltPenalty ==
    (ReachedSearch /\ det.method = PyStr("pelt")) =>
        /\ ret.args.algo = "Pelt"
        /\ ret.args.model = det.model
        /\ ret.args.min_size = det.min_size
        /\ ret.args.predict.kw = "pen"
        /\ ret.args.predict.v = IF det.penalty = PyStr("default") THEN PyInt(3) ELSE det.penalty

C27_Witness ==
    /\ ReachedSearch /\ det.method = PyStr("pelt") /\ det.penalty = PyInt(6)
    /\ det.model = PyStr("l1") /\ Structured("success")
    /\ ret.args.predict = [kw |-> "pen", v |-> PyInt(6)]

(***************************************************************************)
(* Properties of the asynchronous front ends.                              *)
(***************************************************************************)
\* C28: whatever the pipeline of request 1 does, also when it stays blocked on
\* its thread for ever, every other request that arrives (a health check or a
\* second pipeline request) is eventually answered.
C28_StaysResponsive ==
    \A r \in Requests \ {1} :
        (run.op = "serve" /\ run.reqs[r].pc = "arrived") ~> (run.reqs[r].pc = "answered")

C28_Witness ==
    /\ run.op = "serve"
    /\ run.reqs[1].pc = "running"
    /\ run.reqs[2].path = "/api/detect_congestion" /\ run.reqs[2].pc = "answered"
    /\ run.reqs[3].path = "/health" /\ run.reqs[3].pc = "answered"

(***************************************************************************)
(* Properties of the pipeline entry points and the answers built on them.  *)
(***************************************************************************)
\* C29 as stated: the front ends tell of an anomaly only if detect returned at
\* least one change point for the window, and for a window that holds data and
\* has no change point they answer that no anomaly occurred.
C29_Original ==
    run.op = "report" =>
        /\ run.reply.kind = "anomaly" => Len(run.call.change_points) >= 1
        /\ (Len(run.call.window) > 0 /\ run.call.change_points = <<>>)
               => run.reply.kind = "no_anomaly"

\* C30 as stated: a detection started by pipe_detect_engine or
\* plot_ship_congestion on a window of at least min_size observations runs a
\* detector configured with one of the five methods, calls detect in a way
\* detect accepts, and ends with status 'success'.
C30_Original ==
    run.op \in {"pipe_detect_engine", "plot_ship_congestion"} =>
        \A c \in 1..Len(run.calls) :
            LET detector == ChangePointDetectorInit(engine_config)
                call == run.calls[c]
                Succeeds(result) == result.exc = "none" /\ result.val.status = "success"
            IN  Len(call.rows) >= detector.min_size.v =>
                    /\ detector.method.v \in valid_methods
                    /\ Succeeds(CallDetect(detector, call.args, call.kwargs, lib))
                    /\ run.exc = "none"

====
